---- MODULE Spec2Model ----
(***************************************************************************)
(* The speed reader: word tokenizer, punctuation classifier and the pacing *)
(* scheduler of the SpeedReader component (React state, one timeout).      *)
(*                                                                         *)
(* A text is a sequence of characters; a character is a one-element        *)
(* string.  Characters outside ASCII carry a name: "EMDASH" is U+2014,     *)
(* "ACIRC" U+00E2, "EURO" U+20AC, "RDQUO" U+201D.                          *)
(***************************************************************************)
EXTENDS Integers, Sequences, FiniteSets, TLC

(***************************************************************************)
(* Strings                                                                 *)
(***************************************************************************)

\* JavaScript's \s, as far as the texts of this model use it.
IsSpace(c) == c \in {" ", "\t", "\n"}

\* text.replace(/\s+/g, " "): every run of whitespace becomes one space.  The
\* text is collapsed by halves; a run cut by the middle is joined again.
RECURSIVE CollapseWhitespace(_)
CollapseWhitespace(t) ==
  IF Len(t) = 0 THEN <<>>
  ELSE IF Len(t) = 1 THEN (IF IsSpace(t[1]) THEN <<" ">> ELSE t)
  ELSE LET m == Len(t) \div 2
           a == CollapseWhitespace(SubSeq(t, 1, m))
           b == CollapseWhitespace(SubSeq(t, m + 1, Len(t)))
       IN  IF a[Len(a)] = " " /\ b[1] = " " THEN a \o Tail(b) ELSE a \o b

TrimStart(t) ==
  IF \A i \in DOMAIN t : IsSpace(t[i]) THEN <<>>
  ELSE SubSeq(t, CHOOSE i \in DOMAIN t :
                   ~IsSpace(t[i]) /\ \A j \in 1..(i - 1) : IsSpace(t[j]),
              Len(t))

TrimEnd(t) ==
  IF \A i \in DOMAIN t : IsSpace(t[i]) THEN <<>>
  ELSE SubSeq(t, 1, CHOOSE i \in DOMAIN t :
                      ~IsSpace(t[i]) /\ \A j \in (i + 1)..Len(t) : IsSpace(t[j]))

\* String.prototype.trim
Trim(t) == TrimEnd(TrimStart(t))

\* String.prototype.split(" "): the pieces between single spaces, empty ones
\* kept.  The text is split by halves; the piece cut by the middle is joined again.
RECURSIVE SplitOnSpace(_)
SplitOnSpace(t) ==
  IF Len(t) = 0 THEN << <<>> >>
  ELSE IF Len(t) = 1 THEN (IF t[1] = " " THEN << <<>>, <<>> >> ELSE <<t>>)
  ELSE LET m == Len(t) \div 2
           a == SplitOnSpace(SubSeq(t, 1, m))
           b == SplitOnSpace(SubSeq(t, m + 1, Len(t)))
       IN  SubSeq(a, 1, Len(a) - 1) \o <<a[Len(a)] \o b[1]>> \o Tail(b)

\* A variant of parseWords without filter(Boolean).
parseWordsWithoutFilter(text) == SplitOnSpace(Trim(CollapseWhitespace(text)))

\* parseWords(text): collapse, trim, split on " ", filter(Boolean).
parseWords(text) ==
  SelectSeq(SplitOnSpace(Trim(CollapseWhitespace(text))), LAMBDA w : w # <<>>)

(***************************************************************************)
(* Punctuation classes                                                     *)
(***************************************************************************)

IsQuote(c) == c \in {"\"", "'"}

\* The last character of w, or the one before one trailing quote, is in cls:
\* the regular expression  [cls]["']?$ .
EndsInClass(w, cls) ==
  \/ Len(w) >= 1 /\ w[Len(w)] \in cls
  \/ Len(w) >= 2 /\ IsQuote(w[Len(w)]) /\ w[Len(w) - 1] \in cls

\* --["']?$
EndsInDoubleHyphen(w) ==
  \/ Len(w) >= 2 /\ w[Len(w)] = "-" /\ w[Len(w) - 1] = "-"
  \/ Len(w) >= 3 /\ IsQuote(w[Len(w)]) /\ w[Len(w) - 1] = "-" /\ w[Len(w) - 2] = "-"

\* A variant of wordEndsSentence whose expression is not anchored at the end.
wordEndsSentenceAnywhere(word) ==
  \E i \in DOMAIN word : word[i] \in {".", "!", "?"}

\* wordEndsSentence(word): /[.!?]["']?$/ on the trimmed word, which is not empty.
wordEndsSentence(word) ==
  LET trimmed == Trim(word)
  IN  Len(trimmed) > 0 /\ EndsInClass(trimmed, {".", "!", "?"})

\* A variant of wordHasPausePunctuation with the period in its character class.
wordHasPausePunctuationWithPeriod(word) ==
  LET trimmed == Trim(word)
  IN  \/ EndsInClass(trimmed, {",", ":", ";", ".", "ACIRC", "EURO", "RDQUO"})
      \/ EndsInDoubleHyphen(trimmed)

\* wordHasPausePunctuation(word): the character class of the source is
\* , : ; U+00E2 U+20AC U+201D (the bytes of an em dash read as cp1252).
wordHasPausePunctuation(word) ==
  LET trimmed == Trim(word)
  IN  \/ EndsInClass(trimmed, {",", ":", ";", "ACIRC", "EURO", "RDQUO"})
      \/ EndsInDoubleHyphen(trimmed)

(***************************************************************************)
(* Focal character                                                         *)
(***************************************************************************)

\* A variant of getFocalCharacterIndex whose thresholds are < where the code has <=.
getFocalCharacterIndexStrictThresholds(word) ==
  LET length == Len(word)
  IN  IF length < 1 THEN 0
      ELSE IF length < 5 THEN 1
      ELSE IF length < 9 THEN 2
      ELSE IF length < 13 THEN 3
      ELSE IF 4 <= length - 1 THEN 4 ELSE length - 1

\* getFocalCharacterIndex(word)
getFocalCharacterIndex(word) ==
  LET length == Len(word)
  IN  IF length <= 1 THEN 0
      ELSE IF length <= 5 THEN 1
      ELSE IF length <= 9 THEN 2
      ELSE IF length <= 13 THEN 3
      ELSE IF 4 <= length - 1 THEN 4 ELSE length - 1

\* String.prototype.slice(from, to) for 0 <= from, to.
Slice(w, from, to) ==
  SubSeq(w, (IF from <= Len(w) THEN from ELSE Len(w)) + 1, IF to <= Len(w) THEN to ELSE Len(w))

\* getWordParts(word): word[i] ?? "" is the character at i, or "" past the end.
getWordParts(word) ==
  LET focalCharacterIndex == getFocalCharacterIndex(word)
  IN  [left |-> Slice(word, 0, focalCharacterIndex),
       focalCharacter |-> IF focalCharacterIndex + 1 \in DOMAIN word
                          THEN <<word[focalCharacterIndex + 1]>> ELSE <<>>,
       right |-> Slice(word, focalCharacterIndex + 1, Len(word))]

(***************************************************************************)
(* Delay of one word                                                       *)
(***************************************************************************)

SENTENCE_END_DELAY_MS_AT_250_WPM == 500
PAUSE_PUNCTUATION_DELAY_MS_AT_250_WPM == 250
DEFAULT_WPM == 300
MIN_BASE_MS == 30
MS_PER_MINUTE == 60000
REFERENCE_WPM == 250

Max(a, b) == IF a >= b THEN a ELSE b
Min(a, b) == IF a <= b THEN a ELSE b

\* Math.round(num / den) for num >= 0, den > 0: halves round up.
RoundDiv(num, den) == (2 * num + den) \div (2 * den)

\* baseMsPerWord = Math.max(30, Math.round(60000 / wordsPerMinute))
baseMsPerWord(wpm) == Max(MIN_BASE_MS, RoundDiv(MS_PER_MINUTE, wpm))

\* Math.round(ms * wpmScale), wpmScale = 250 / wordsPerMinute
scaledDelay(ms, wpm) == RoundDiv(ms * REFERENCE_WPM, wpm)

\* extraDelay of the scheduling effect, for the word about to be left.
extraDelay(currentWord, wpm, sentenceEndMs, speechBreakMs) ==
  IF wordEndsSentence(currentWord) THEN scaledDelay(sentenceEndMs, wpm)
  ELSE IF wordHasPausePunctuation(currentWord) THEN scaledDelay(speechBreakMs, wpm)
  ELSE 0

\* delay = baseMsPerWord + extraDelay
wordDelay(currentWord, wpm, sentenceEndMs, speechBreakMs) ==
  baseMsPerWord(wpm) + extraDelay(currentWord, wpm, sentenceEndMs, speechBreakMs)

\* calculateReadingTimeMs(words, wordsPerMinute, sentenceEndDurationMsAt250Wpm,
\* speechBreakDurationMsAt250Wpm, fromIndex = 0, toIndex?): toIndex is <<>>
\* when it is left out, <<n>> otherwise.  words[i] ?? "" is the empty word
\* for an index that is not in the list.
calculateReadingTimeMs(wordList, wpm, sentenceEndMs, speechBreakMs, fromIndex, toIndex) ==
  IF Len(wordList) = 0 THEN 0
  ELSE
    LET end == IF toIndex = <<>> THEN Len(wordList) - 1 ELSE toIndex[1]
        start == Max(0, Min(fromIndex, end))
        base == Max(30, RoundDiv(60000, wpm))
        sentenceDelay == RoundDiv(sentenceEndMs * 250, wpm)
        pauseDelay == RoundDiv(speechBreakMs * 250, wpm)
        wordAt(i) == IF i + 1 \in DOMAIN wordList THEN wordList[i + 1] ELSE <<>>
        extra(w) == IF wordEndsSentence(w) THEN sentenceDelay
                    ELSE IF wordHasPausePunctuation(w) THEN pauseDelay
                    ELSE 0
        total[i \in (start - 1)..end] ==
          IF i < start THEN 0 ELSE total[i - 1] + base + extra(wordAt(i))
    IN  IF end < start THEN 0 ELSE total[end]

(***************************************************************************)
(* Texts                                                                   *)
(***************************************************************************)

\* "Paste your own text below, press play, and read one focal point at a time."
SAMPLE_TEXT ==
  <<"P", "a", "s", "t", "e", " ", "y", "o", "u", "r", " ", "o",
    "w", "n", " ", "t", "e", "x", "t", " ", "b", "e", "l", "o",
    "w", ",", " ", "p", "r", "e", "s", "s", " ", "p", "l", "a",
    "y", ",", " ", "a", "n", "d", " ", "r", "e", "a", "d", " ",
    "o", "n", "e", " ", "f", "o", "c", "a", "l", " ", "p", "o",
    "i", "n", "t", " ", "a", "t", " ", "a", " ", "t", "i", "m",
    "e", ".">>

\* Texts a user types or an article yields: none, blanks only, one word, and
\* ' so,  up\u2014 end.\n' , whose words end in a comma, an em dash and a period.
EmptyText == <<>>
BlankText == <<" ", "\n">>
OneWordText == <<"h", "i">>
PunctuatedText ==
  <<" ", "s", "o", ",", " ", " ", "u", "p", "EMDASH", " ", "e", "n", "d", ".", "\n">>

Texts == {SAMPLE_TEXT, EmptyText, BlankText, OneWordText, PunctuatedText}

(***************************************************************************)
(* The SpeedReader component                                               *)
(*                                                                         *)
(* A component instance is a record s of its hooks: the useState values    *)
(* (inputText, wordsPerMinute, wordIndex, isPlaying), the refs            *)
(* (timeoutRef, lastControlledRef), the memoised words, the dependencies   *)
(* each effect last ran with, its props (variant, text) and the timeouts   *)
(* it has pending in the browser.  pageWordIndex is the reader page's      *)
(* wordIndex, which the panel variant receives as controlledWordIndex and  *)
(* writes through onWordIndexChange.                                       *)
(***************************************************************************)

\* useRef(null): no timeout id.
NullTimeout == 0

\* How many render passes one event may need before giving up on the loop.
MaxRenderPasses == 6

\* The slider: min 50, max 1200, step 25.
WPM_MIN == 50
WPM_MAX == 1200
WPM_STEP == 25
WpmRange == {w \in WPM_MIN..WPM_MAX : (w - WPM_MIN) % WPM_STEP = 0}

\* The rates the model moves the slider to.
WpmSamples == {REFERENCE_WPM, DEFAULT_WPM, WPM_MAX}

\* const text = isFull ? inputText : props.text
renderedText(s) == IF s.variant = "full" THEN s.inputText ELSE s.text

\* A variant that takes wordIndex as it is, without the Math.min.
activeWordIndexUnclamped(ws, wi) == wi

\* activeWordIndex = words.length === 0 ? 0 : Math.min(wordIndex, words.length - 1)

activeWordIndex(ws, wi) == IF Len(ws) = 0 THEN 0 ELSE Min(wi, Len(ws) - 1)

\* props.controlledWordIndex: <<>> is undefined.
controlledWordIndex(s) == IF s.variant = "full" THEN <<>> ELSE <<s.pageWordIndex>>

\* isFinished
isFinished(s) ==
  /\ Len(s.words) > 0
  /\ ~s.isPlaying
  /\ activeWordIndex(s.words, s.wordIndex) >= Len(s.words) - 1

\* A variant of the dependency list in which wordsPerMinute is missing.
schedulingDepsWithoutWpm(s, ws) ==
  [isPlaying |-> s.isPlaying, length |-> Len(ws), wordsPerMinute |-> 0,
   activeWordIndex |-> activeWordIndex(ws, s.wordIndex), words |-> renderedText(s)]

\* The dependency list of the scheduling effect; words stands for the array
\* useMemo returns, which is a new one exactly when text is another string.
schedulingDeps(s, ws) ==
  [isPlaying |-> s.isPlaying, length |-> Len(ws), wordsPerMinute |-> s.wordsPerMinute,
   activeWordIndex |-> activeWordIndex(ws, s.wordIndex), words |-> renderedText(s)]

\* A timeout id the browser has not handed out among those still known.
FreshTimeoutId(s) ==
  CHOOSE n \in 1..(Cardinality(s.timers) + 2) :
    /\ n # s.timeoutRef
    /\ \A t \in s.timers : t.id # n

\* useEffect 1: the panel copies props.text into inputText.
textSyncEffect(s) ==
  IF s.variant # "full" /\ renderedText(s) # s.inputText
  THEN [s EXCEPT !.inputText = renderedText(s)]
  ELSE s

\* useEffect 2: a controlledWordIndex not seen before becomes wordIndex.
controlledIndexEffect(s, r) ==
  LET c == controlledWordIndex(r)
  IN  IF c = <<>> \/ s.lastControlledRef = c THEN s
      ELSE [s EXCEPT !.lastControlledRef = c, !.wordIndex = c[1]]

\* useEffect 3: onWordIndexChange?.(activeWordIndex) when activeWordIndex changed;
\* the page's callback is setWordIndex.
reportIndexEffect(s, r, ws) ==
  LET a == activeWordIndex(ws, r.wordIndex)
  IN  IF r.reportDeps = <<a>> THEN s
      ELSE [s EXCEPT !.reportDeps = <<a>>,
                     !.pageWordIndex = IF r.variant = "full" THEN @ ELSE a]

\* A variant of the cleanup that forgets the timeout without clearing it.
schedulingCleanupLeaksTimer(s) == [s EXCEPT !.timeoutRef = NullTimeout]

\* The cleanup the scheduling effect returns.

schedulingCleanup(s) ==
  IF s.timeoutRef # NullTimeout
  THEN [s EXCEPT !.timers = {t \in @ : t.id # s.timeoutRef},
                 !.timeoutRef = NullTimeout]
  ELSE s

\* The body of the scheduling effect, for the render r with words ws.
schedulingBody(s, r, ws) ==
  LET deps == schedulingDeps(r, ws)
  IN  IF ~r.isPlaying \/ Len(ws) = 0
      THEN [s EXCEPT !.schedDeps = <<deps>>, !.schedCleanup = FALSE]
      ELSE LET a == activeWordIndex(ws, r.wordIndex)
               currentWord == IF a + 1 \in DOMAIN ws THEN ws[a + 1] ELSE <<>>
               id == FreshTimeoutId(s)
               t == [id |-> id,
                     delay |-> wordDelay(currentWord, r.wordsPerMinute,
                                         SENTENCE_END_DELAY_MS_AT_250_WPM,
                                         PAUSE_PUNCTUATION_DELAY_MS_AT_250_WPM),
                     length |-> Len(ws),
                     deps |-> deps]
           IN  [s EXCEPT !.timers = @ \cup {t}, !.timeoutRef = id,
                         !.schedDeps = <<deps>>, !.schedCleanup = TRUE]

\* useEffect 4: when a dependency changed, the last run's cleanup, then the body.
schedulingEffect(s, r, ws) ==
  IF r.schedDeps = <<schedulingDeps(r, ws)>> THEN s
  ELSE schedulingBody(IF s.schedCleanup THEN schedulingCleanup(s) ELSE s, r, ws)

\* One render of the state r and the effects of its commit, in source order.
\* words = useMemo(() => parseWords(text), [text]) is computed anew when text is
\* not the text of the last render.
\* Every effect reads the values of the render r; what the effects set is seen
\* by the next render.
RenderPass(r) ==
  LET memo == <<renderedText(r)>>
      Commit(ws) ==
        LET s0 == [r EXCEPT !.words = ws, !.wordsMemo = memo]
            s1 == textSyncEffect(s0)
            s2 == controlledIndexEffect(s1, r)
            s3 == reportIndexEffect(s2, r, ws)
        IN  schedulingEffect(s3, r, ws)
      memoized == {IF r.wordsMemo = memo THEN r.words ELSE parseWords(renderedText(r))}
  IN  CHOOSE t \in {Commit(ws) : ws \in memoized} : TRUE

\* Render until a pass changes nothing: the one state the event ends in.  A loop
\* that has not ended after k more passes is given up with settled = FALSE; the
\* instance is then seen in either of the states the loop goes on through.
RECURSIVE Settle(_, _)
Settle(s, k) ==
  UNION { IF t = s THEN {s}
          ELSE IF k = 0
          THEN {[t EXCEPT !.settled = FALSE], [RenderPass(t) EXCEPT !.settled = FALSE]}
          ELSE Settle(t, k - 1) : t \in {RenderPass(s)} }

\* The hooks of a fresh instance, before its first render.
MountState(v, txt, page) ==
  [variant |-> v, mounted |-> TRUE, text |-> txt,
   inputText |-> IF v = "full" THEN SAMPLE_TEXT ELSE txt,
   words |-> <<>>, wordsMemo |-> <<>>, wordsPerMinute |-> DEFAULT_WPM, wordIndex |-> 0,
   isPlaying |-> FALSE, lastControlledRef |-> <<>>, timeoutRef |-> NullTimeout,
   timers |-> {}, schedDeps |-> <<>>, schedCleanup |-> FALSE, reportDeps |-> <<>>,
   pageWordIndex |-> page, settled |-> TRUE]

\* No instance: the reader page before an article is there.
UnmountedState(v, page) ==
  [MountState(v, <<>>, page) EXCEPT !.mounted = FALSE]

\* Unmounting runs the cleanup of the scheduling effect and drops the hooks.
Unmount(s) ==
  LET c == IF s.schedCleanup THEN schedulingCleanup(s) ELSE s
  IN  [UnmountedState(s.variant, s.pageWordIndex) EXCEPT !.timers = c.timers]


(***************************************************************************)
(* Event handlers, as functions of the instance                            *)
(***************************************************************************)

\* A variant of the button without the isFinished branch.
handlePlayPauseRestartNeverRestarts(s) ==
  IF Len(s.words) = 0 THEN s ELSE [s EXCEPT !.isPlaying = ~@]

\* A variant of the button that starts from index 0 whenever it starts.
handlePlayPauseRestartAlwaysRestarts(s) ==
  IF Len(s.words) = 0 THEN s
  ELSE IF ~s.isPlaying THEN [s EXCEPT !.wordIndex = 0, !.isPlaying = TRUE]
  ELSE [s EXCEPT !.isPlaying = ~@]

\* A variant of the button that sets isPlaying to false where the code negates it.
handlePlayPauseRestartOnlyPauses(s) ==
  IF Len(s.words) = 0 THEN s
  ELSE IF isFinished(s) THEN [s EXCEPT !.wordIndex = 0, !.isPlaying = TRUE]
  ELSE [s EXCEPT !.isPlaying = FALSE]

\* The button's onClick: nothing without words; from Finished, index 0 and
\* playing; otherwise isPlaying is negated.
handlePlayPauseRestart(s) ==
  IF Len(s.words) = 0 THEN s
  ELSE IF isFinished(s) THEN [s EXCEPT !.wordIndex = 0, !.isPlaying = TRUE]
  ELSE [s EXCEPT !.isPlaying = ~@]

\* The textarea's onChange.
handleTextChange(s, value) ==
  [s EXCEPT !.inputText = value, !.wordIndex = 0, !.isPlaying = FALSE]

\* A variant of the word slider that also stops playback.
onWordSliderChangePauses(s, v) == [s EXCEPT !.wordIndex = v, !.isPlaying = FALSE]

\* The word slider: onValueChange={([v]) => setWordIndex(v ?? 0)}
onWordSliderChange(s, v) == [s EXCEPT !.wordIndex = v]

\* The rate slider: onValueChange={([v]) => setWordsPerMinute(v ?? 300)}
onWpmSliderChange(s, v) == [s EXCEPT !.wordsPerMinute = v]

\* The page's handleWordClick(index): setWordIndex(index).
handleWordClick(s, index) == [s EXCEPT !.pageWordIndex = index]

\* A variant of the callback without the test for the last word.
timeoutCallbackRunsPastEnd(s, t) ==
  [s EXCEPT !.timers = @ \ {t}, !.wordIndex = @ + 1]

\* The callback of the timeout t, which the browser then forgets.

\* A variant of the callback that leaves isPlaying as it is at the last word.
timeoutCallbackNeverStops(s, t) ==
  IF s.wordIndex >= t.length - 1
  THEN [s EXCEPT !.timers = @ \ {t}]
  ELSE [s EXCEPT !.timers = @ \ {t}, !.wordIndex = @ + 1]

timeoutCallback(s, t) ==
  IF s.wordIndex >= t.length - 1
  THEN [s EXCEPT !.timers = @ \ {t}, !.isPlaying = FALSE]
  ELSE [s EXCEPT !.timers = @ \ {t}, !.wordIndex = @ + 1]

\* extractTextFromHtml ends in .replace(/\s+/g, " ").trim()
articleText(content) == Trim(CollapseWhitespace(content))

(***************************************************************************)
(* Markup                                                                  *)
(*                                                                         *)
(* A markup document is a sequence of items: a character, or a tag written *)
(* as one string ("<a>" stands for <a href="...">).  The documents are     *)
(* well nested, so that DOMParser builds the tree the tags spell out.      *)
(***************************************************************************)

IsOpenTag(x) == x \in {"<a>", "<b>"}
IsCloseTag(x) == x \in {"</a>", "</b>"}
IsTag(x) == IsOpenTag(x) \/ IsCloseTag(x)
CloseTagOf(x) == IF x = "<a>" THEN "</a>" ELSE "</b>"

\* Every close tag closes the innermost open element, no element is left open
\* and none is nested in one of its own kind.
RECURSIVE WellNested(_, _)
WellNested(html, open) ==
  IF html = <<>> THEN open = <<>>
  ELSE LET x == Head(html)
       IN  IF IsOpenTag(x)
           THEN /\ \A i \in DOMAIN open : open[i] # x
                /\ WellNested(Tail(html), <<x>> \o open)
           ELSE IF IsCloseTag(x)
           THEN /\ open # <<>>
                /\ CloseTagOf(Head(open)) = x
                /\ WellNested(Tail(html), Tail(open))
           ELSE WellNested(Tail(html), open)

\* The nodes of a document body in document order: an element boundary, a text
\* node, or (in the output of wrapWordsInHtml) a span with its data-word-index.
ElementNode(x) == [tag |-> x, text |-> <<>>, index |-> -1]
TextNode(t) == [tag |-> "#text", text |-> t, index |-> -1]
SpanNode(i, t) == [tag |-> "span", text |-> t, index |-> i]

\* The tree builder: characters between two tags make one text node.
RECURSIVE BuildNodes(_, _)
BuildNodes(html, nodes) ==
  IF html = <<>> THEN nodes
  ELSE LET x == Head(html)
           n == Len(nodes)
       IN  IF IsTag(x) THEN BuildNodes(Tail(html), Append(nodes, ElementNode(x)))
           ELSE IF n > 0 /\ nodes[n].tag = "#text"
           THEN BuildNodes(Tail(html),
                           [nodes EXCEPT ![n] = TextNode(nodes[n].text \o <<x>>)])
           ELSE BuildNodes(Tail(html), Append(nodes, TextNode(<<x>>)))

\* parser.parseFromString(html, "text/html"), doc.body: whitespace ahead of the
\* first tag or character does not reach the body.
parseFromString(html) == BuildNodes(TrimStart(html), <<>>)

\* The TreeWalker over NodeFilter.SHOW_TEXT.
textNodesOf(nodes) == SelectSeq(nodes, LAMBDA n : n.tag = "#text")

\* text.split(/( )/): the pieces between single spaces and the spaces themselves.
RECURSIVE SplitCapturingSpace(_)
SplitCapturingSpace(t) ==
  IF \A i \in DOMAIN t : t[i] # " " THEN <<t>>
  ELSE LET i == CHOOSE k \in DOMAIN t : t[k] = " " /\ \A j \in 1..(k - 1) : t[j] # " "
       IN  <<SubSeq(t, 1, i - 1), <<" ">> >> \o SplitCapturingSpace(SubSeq(t, i + 1, Len(t)))

\* hasContent && !startsWithSpace && hasProcessedWords
needsLeadingSpace(t, hasProcessedWords) ==
  /\ Trim(t) # <<>>
  /\ ~(t # <<>> /\ IsSpace(t[1]))
  /\ hasProcessedWords

\* A part that is neither " " nor empty is a word.
IsWordPart(part) == part # <<" ">> /\ part # <<>>

RECURSIVE JoinParts(_)
JoinParts(parts) == IF parts = <<>> THEN <<>> ELSE Head(parts) \o JoinParts(Tail(parts))

\* A variant of the loop of extractTextFromHtml that never pushes the leading space.
RECURSIVE extractLoopWithoutLeadingSpace(_, _, _)
extractLoopWithoutLeadingSpace(textNodes, parts, hasProcessedWords) ==
  IF textNodes = <<>> THEN parts
  ELSE LET t == CollapseWhitespace(Head(textNodes).text)
           nodeParts == SelectSeq(SplitCapturingSpace(t), LAMBDA q : q # <<>>)
       IN  extractLoopWithoutLeadingSpace(
             Tail(textNodes), parts \o nodeParts,
             hasProcessedWords \/ \E i \in DOMAIN nodeParts : IsWordPart(nodeParts[i]))

\* The loop of extractTextFromHtml over the text nodes: parts, hasProcessedWords.
RECURSIVE extractLoop(_, _, _)
extractLoop(textNodes, parts, hasProcessedWords) ==
  IF textNodes = <<>> THEN parts
  ELSE LET t == CollapseWhitespace(Head(textNodes).text)
           nodeParts == SelectSeq(SplitCapturingSpace(t), LAMBDA q : q # <<>>)
           lead == IF needsLeadingSpace(t, hasProcessedWords) THEN << <<" ">> >> ELSE <<>>
       IN  extractLoop(
             Tail(textNodes), parts \o lead \o nodeParts,
             hasProcessedWords \/ \E i \in DOMAIN nodeParts : IsWordPart(nodeParts[i]))

\* extractTextFromHtml(html): parts.join("").replace(/\s+/g, " ").trim()
extractTextFromHtml(html) ==
  Trim(CollapseWhitespace(
    JoinParts(extractLoop(textNodesOf(parseFromString(html)), <<>>, FALSE))))

\* A variant of the fragment in which the " " parts are left out.
RECURSIVE wrapPartsWithoutSpaces(_, _)
wrapPartsWithoutSpaces(nodeParts, wordIndex) ==
  IF nodeParts = <<>> THEN <<>>
  ELSE LET part == Head(nodeParts)
       IN  IF IsWordPart(part)
           THEN <<SpanNode(wordIndex, part)>>
                  \o wrapPartsWithoutSpaces(Tail(nodeParts), wordIndex + 1)
           ELSE wrapPartsWithoutSpaces(Tail(nodeParts), wordIndex)

\* The fragment that replaces one text node, words numbered from wordIndex on.
RECURSIVE wrapParts(_, _)
wrapParts(nodeParts, wordIndex) ==
  IF nodeParts = <<>> THEN <<>>
  ELSE LET part == Head(nodeParts)
       IN  IF part = <<" ">> THEN <<TextNode(<<" ">>)>> \o wrapParts(Tail(nodeParts), wordIndex)
           ELSE IF part # <<>>
           THEN <<SpanNode(wordIndex, part)>> \o wrapParts(Tail(nodeParts), wordIndex + 1)
           ELSE wrapParts(Tail(nodeParts), wordIndex)

\* The loop of wrapWordsInHtml over the nodes of the body: every text node is
\* replaced by its fragment, the elements stay.  st holds the nodes put out so
\* far, wordIndex and hasProcessedWords.
RECURSIVE wrapLoop(_, _)
wrapLoop(nodes, st) ==
  IF nodes = <<>> THEN st.out
  ELSE LET n == Head(nodes)
       IN  IF n.tag # "#text"
           THEN wrapLoop(Tail(nodes), [st EXCEPT !.out = Append(@, n)])
           ELSE LET t == CollapseWhitespace(n.text)
                    lead == IF needsLeadingSpace(t, st.hasProcessedWords)
                            THEN <<TextNode(<<" ">>)>> ELSE <<>>
                    fragment == lead \o wrapParts(SplitCapturingSpace(t), st.wordIndex)
                    made == Len(SelectSeq(fragment, LAMBDA f : f.tag = "span"))
                IN  wrapLoop(Tail(nodes),
                             [out |-> st.out \o fragment,
                              wordIndex |-> st.wordIndex + made,
                              hasProcessedWords |-> st.hasProcessedWords \/ made > 0])

\* wrapWordsInHtml(html): the nodes of doc.body after the loop.
wrapWordsInHtml(html) ==
  wrapLoop(parseFromString(html),
           [out |-> <<>>, wordIndex |-> 0, hasProcessedWords |-> FALSE])

\* The number of whitespace characters t begins with.
LeadingWhitespace(t) == Len(t) - Len(TrimStart(t))

\* html.replace(/(<\/a>)(\s*,\s*)/g, ...): at every </a> followed by a comma,
\* with whitespace around it or not, the comma goes ahead of the tag and the
\* whitespace after the comma, if any, becomes one space.
RECURSIVE attachTrailingCommasToLinks(_)
attachTrailingCommasToLinks(html) ==
  IF html = <<>> THEN <<>>
  ELSE LET rest == Tail(html)
           k == LeadingWhitespace(rest)
           after == SubSeq(rest, k + 2, Len(rest))
           m == LeadingWhitespace(after)
       IN  IF Head(html) = "</a>" /\ k < Len(rest) /\ rest[k + 1] = ","
           THEN <<",", "</a>">> \o (IF m > 0 THEN <<" ">> ELSE <<>>)
                  \o attachTrailingCommasToLinks(SubSeq(after, m + 1, Len(after)))
           ELSE <<Head(html)>> \o attachTrailingCommasToLinks(rest)

\* The documents: every well-nested one of at most MaxMarkupLen items, the
\* example <p>Hello, <a href="x">world</a>, friend.</p> (without the <p>), a
\* link that ends in a space and a link around an element, each before a comma.
MaxMarkupLen == 5
MarkupItems == {"<a>", "</a>", "<b>", "</b>", "w", ",", " "}
ShortDocuments ==
  {d \in UNION {[1..n -> MarkupItems] : n \in 0..MaxMarkupLen} : WellNested(d, <<>>)}
HelloWorldFriend ==
  <<"H", "e", "l", "l", "o", ",", " ", "<a>", "w", "o", "r", "l", "d", "</a>", ",", " ", "f", "r", "i", "e", "n", "d", ".">>
LinkEndingInSpace == <<"<a>", "w", " ", "</a>", ",", " ", "w">>
LinkAroundElement == <<"<a>", "<b>", "w", "</b>", "</a>", ",", " ", "w">>
Documents ==
  ShortDocuments \cup {HelloWorldFriend, LinkEndingInSpace, LinkAroundElement}

(***************************************************************************)
(* The fetch route: the guard against requests to internal addresses, the  *)
(* bounded download and the answer of the POST handler.                    *)
(*                                                                         *)
(* A host is a record: a name, a dotted IPv4 literal (four octets) or an   *)
(* IPv6 literal (eight groups), with or without the square brackets that   *)
(* URL.hostname puts around an IPv6 literal.  URL.hostname is lower case   *)
(* and spells an address in its canonical form.                            *)
(***************************************************************************)

MAX_HTML_BYTES == 5 * 1024 * 1024

Name(n) == [brackets |-> FALSE, kind |-> "name", name |-> n, parts |-> <<>>]
IPv4(a, b, c, d) == [brackets |-> FALSE, kind |-> "v4", name |-> "", parts |-> <<a, b, c, d>>]
IPv6(groups) == [brackets |-> FALSE, kind |-> "v6", name |-> "", parts |-> groups]
\* URL.hostname of an IPv6 literal: "[" + address + "]"
Bracketed(h) == [h EXCEPT !.brackets = TRUE]

Loopback6 == IPv6(<<0, 0, 0, 0, 0, 0, 0, 1>>)    \* "::1"
Unspecified6 == IPv6(<<0, 0, 0, 0, 0, 0, 0, 0>>) \* "::"

BLOCKED_HOSTNAMES ==
  {Name("localhost"), Name("localhost.localdomain"), Name("localhost4"),
   Name("localhost6"), Name("ip6-localhost"), Name("ip6-loopback"),
   IPv4(0, 0, 0, 0), IPv4(127, 0, 0, 1), Loopback6, Unspecified6}

\* net.isIP(input): 4, 6, or 0 for anything else, a bracketed literal included
isIP(h) ==
  IF h.brackets THEN 0
  ELSE IF h.kind = "v4" THEN 4
  ELSE IF h.kind = "v6" THEN 6
  ELSE 0

\* isBlockedIPv4 without the link-local range
isBlockedIPv4WithoutLinkLocal(ip) ==
  LET parts == ip.parts IN
  IF Len(parts) # 4 \/ \E i \in 1..Len(parts) : parts[i] < 0 \/ parts[i] > 255
  THEN FALSE
  ELSE IF parts[1] = 10 THEN TRUE
  ELSE IF parts[1] = 172 /\ parts[2] >= 16 /\ parts[2] <= 31 THEN TRUE
  ELSE IF parts[1] = 192 /\ parts[2] = 168 THEN TRUE
  ELSE IF parts[1] = 127 THEN TRUE
  ELSE FALSE

isBlockedIPv4(ip) ==
  LET parts == ip.parts IN
  IF Len(parts) # 4 \/ \E i \in 1..Len(parts) : parts[i] < 0 \/ parts[i] > 255
  THEN FALSE
  ELSE IF parts[1] = 10 THEN TRUE
  ELSE IF parts[1] = 172 /\ parts[2] >= 16 /\ parts[2] <= 31 THEN TRUE
  ELSE IF parts[1] = 192 /\ parts[2] = 168 THEN TRUE
  ELSE IF parts[1] = 127 THEN TRUE
  ELSE IF parts[1] = 169 /\ parts[2] = 254 THEN TRUE
  ELSE FALSE

\* The number of zero groups from group i on.
RECURSIVE ZeroRun(_, _)
ZeroRun(groups, i) ==
  IF i > Len(groups) \/ groups[i] # 0 THEN 0 ELSE 1 + ZeroRun(groups, i + 1)

\* The canonical text of the address starts with "::": its leading zero
\* groups are the first longest run of two or more zero groups.
StartsCompressed(groups) ==
  /\ ZeroRun(groups, 1) >= 2
  /\ \A i \in 2..Len(groups) : ZeroRun(groups, i) <= ZeroRun(groups, 1)

\* parts[0] ? parseInt(parts[0], 16) : NaN, parts = ip.split(":");
\* <<>> is NaN
firstHex(ip) ==
  IF StartsCompressed(ip.parts) THEN <<>> ELSE <<ip.parts[1]>>

isBlockedIPv6(ip) ==
  IF ip.parts = Loopback6.parts THEN TRUE
  ELSE IF ip.parts = Unspecified6.parts THEN TRUE
  ELSE IF firstHex(ip) # <<>>
          /\ \/ firstHex(ip)[1] >= 64512 /\ firstHex(ip)[1] <= 65023  \* 0xfc00..0xfdff
             \/ firstHex(ip)[1] >= 65152 /\ firstHex(ip)[1] <= 65215  \* 0xfe80..0xfebf
       THEN TRUE
  ELSE FALSE

isBlockedIP(ip) ==
  IF isIP(ip) = 4 THEN isBlockedIPv4(ip)
  ELSE IF isIP(ip) = 6 THEN isBlockedIPv6(ip)
  ELSE FALSE

\* hostname.toLowerCase().replace(/^\[|\]$/g, "")
normalized(hostname) == [hostname EXCEPT !.brackets = FALSE]

\* isBlockedHostname reaches dns.promises.lookup
hostnameNeedsLookup(hostname) ==
  /\ normalized(hostname) \notin BLOCKED_HOSTNAMES
  /\ isIP(normalized(hostname)) = 0

\* isBlockedHostname looking at the first resolved address only
isBlockedHostnameFirstAddressOnly(hostname, lookup) ==
  IF normalized(hostname) \in BLOCKED_HOSTNAMES THEN TRUE
  ELSE IF isIP(normalized(hostname)) # 0 THEN isBlockedIP(normalized(hostname))
  ELSE IF lookup = <<>> THEN TRUE
  ELSE isBlockedIP(lookup[1][1])

\* isBlockedHostname(hostname); lookup is what dns.promises.lookup answers
\* when it is reached: <<>> when it throws, <<results>> otherwise
isBlockedHostname(hostname, lookup) ==
  IF normalized(hostname) \in BLOCKED_HOSTNAMES THEN TRUE
  ELSE IF isIP(normalized(hostname)) # 0 THEN isBlockedIP(normalized(hostname))
  ELSE IF lookup = <<>> THEN TRUE
  ELSE \E i \in 1..Len(lookup[1]) : isBlockedIP(lookup[1][i])

\* NextResponse.json({ error }, { status }); fields are the keys of the body
Answer(status, error) == [status |-> status, error |-> error, fields |-> {"error"}]
\* NextResponse.json({ title, content, textContent, excerpt, byline, siteName })
ArticleAnswer ==
  [status |-> 200, error |-> "",
   fields |-> {"title", "content", "textContent", "excerpt", "byline", "siteName"}]
Forbidden == Answer(400, "Forbidden URL")

\* beforeLookup without the test of the protocol
beforeLookupWithoutProtocolCheck(request) ==
  IF ~request.given
  THEN [to |-> "answer", response |-> <<Answer(400, "URL is required")>>]
  ELSE IF ~request.parses
  THEN [to |-> "answer", response |-> <<Answer(500, "Invalid URL")>>]
  ELSE IF request.hostname \in BLOCKED_HOSTNAMES
  THEN [to |-> "answer", response |-> <<Forbidden>>]
  ELSE IF isIP(request.hostname) # 0 /\ isBlockedIP(request.hostname)
  THEN [to |-> "answer", response |-> <<Forbidden>>]
  ELSE IF isIP(request.hostname) = 0
  THEN IF hostnameNeedsLookup(request.hostname)
       THEN [to |-> "lookup", response |-> <<>>]
       ELSE IF isBlockedHostname(request.hostname, <<>>)
       THEN [to |-> "answer", response |-> <<Forbidden>>]
       ELSE [to |-> "fetch", response |-> <<>>]
  ELSE [to |-> "fetch", response |-> <<>>]

\* The handler from the parsed request body to its answer (response is
\* <<the answer>>) or to the call it waits for: "lookup" when
\* isBlockedHostname calls dns.promises.lookup, "fetch" when fetch(url) is
\* called.  new URL(url) throws a TypeError on a string that is no URL.
beforeLookup(request) ==
  IF ~request.given
  THEN [to |-> "answer", response |-> <<Answer(400, "URL is required")>>]
  ELSE IF ~request.parses
  THEN [to |-> "answer", response |-> <<Answer(500, "Invalid URL")>>]
  ELSE IF request.protocol \notin {"http:", "https:"}
  THEN [to |-> "answer", response |-> <<Answer(400, "Invalid URL protocol")>>]
  ELSE IF request.hostname \in BLOCKED_HOSTNAMES
  THEN [to |-> "answer", response |-> <<Forbidden>>]
  ELSE IF isIP(request.hostname) # 0 /\ isBlockedIP(request.hostname)
  THEN [to |-> "answer", response |-> <<Forbidden>>]
  ELSE IF isIP(request.hostname) = 0
  THEN IF hostnameNeedsLookup(request.hostname)
       THEN [to |-> "lookup", response |-> <<>>]
       ELSE IF isBlockedHostname(request.hostname, <<>>)
       THEN [to |-> "answer", response |-> <<Forbidden>>]
       ELSE [to |-> "fetch", response |-> <<>>]
  ELSE [to |-> "fetch", response |-> <<>>]

Sum(sizes) == IF sizes = <<>> THEN 0 ELSE LET S[i \in 0..Len(sizes)] == IF i = 0 THEN 0 ELSE S[i - 1] + sizes[i] IN S[Len(sizes)]

\* The catch block of the handler.
caught(errorName, message) ==
  IF errorName = "AbortError"
  THEN Answer(504, "Request timed out")
  ELSE Answer(500, message)

\* A variant of the loop that reads the body to its end before it answers.
RECURSIVE readLoopToTheEnd(_, _, _)
readLoopToTheEnd(chunks, failure, totalBytes) ==
  IF chunks = <<>>
  THEN IF failure # "" THEN [end |-> "thrown", bytes |-> totalBytes, unread |-> <<>>,
                             cancelled |-> FALSE]
       ELSE [end |-> IF totalBytes > MAX_HTML_BYTES THEN "large" ELSE "done",
             bytes |-> totalBytes, unread |-> <<>>, cancelled |-> totalBytes > MAX_HTML_BYTES]
  ELSE readLoopToTheEnd(Tail(chunks), failure, totalBytes + Head(chunks))

\* The reading loop: chunks read one by one, totalBytes checked after each.
\* "large" when the ceiling is passed, after reader.cancel(); "thrown" when a
\* read rejects; else the bytes collected.  unread are the chunks of the
\* body the loop has not asked for.
RECURSIVE readLoop(_, _, _)
readLoop(chunks, failure, totalBytes) ==
  IF chunks = <<>>
  THEN IF failure # "" THEN [end |-> "thrown", bytes |-> totalBytes, unread |-> <<>>,
                             cancelled |-> FALSE]
       ELSE [end |-> "done", bytes |-> totalBytes, unread |-> <<>>, cancelled |-> FALSE]
  ELSE IF totalBytes + Head(chunks) > MAX_HTML_BYTES
  THEN [end |-> "large", bytes |-> totalBytes + Head(chunks), unread |-> Tail(chunks),
        cancelled |-> TRUE]
  ELSE readLoop(Tail(chunks), failure, totalBytes + Head(chunks))

\* The reader of response.body after the try ... finally around the loop:
\* the chunks it was asked for, whether it was cancelled, and its lock, which
\* finally releases however the loop ends.
usedReader(chunks, loop) ==
  [chunksRead |-> Len(chunks) - Len(loop.unread), cancelled |-> loop.cancelled,
   locked |-> FALSE]

\* parseHTML and Readability on the html read, a body of so many bytes;
\* article says whether reader.parse() gives an article or null
extractNeverNull(article, bytes) ==
  [response |-> ArticleAnswer, html |-> <<bytes>>, read |-> bytes]

\* The end of the handler, from parseHTML on: 422 when reader.parse() is
\* null, the article otherwise.
extract(article, bytes) ==
  IF article
  THEN [response |-> ArticleAnswer, html |-> <<bytes>>, read |-> bytes]
  ELSE [response |-> Answer(422, "Could not extract article content"),
        html |-> <<bytes>>, read |-> bytes]

\* contentLength !== null and parseInt(contentLength, 10) is a number
declaredNumeric(length) == length.present /\ length.size # <<>>

\* no declared size is over the ceiling
declaredTooLargeNever(length) == FALSE

\* the declared size is over the ceiling
declaredTooLarge(length) == declaredNumeric(length) /\ length.size[1] > MAX_HTML_BYTES

\* afterFetch without the test of response.ok
afterFetchIgnoringStatus(upstream) ==
  LET length == upstream.contentLength
      numeric == declaredNumeric(length)
      extraction(bytes, reader) ==
        LET end == extract(upstream.article, bytes)
        IN  [response |-> end.response, html |-> end.html, read |-> end.read,
             reader |-> reader]
      loop == readLoop(upstream.chunks, upstream.bodyFailure.cause, 0)
      reader == <<usedReader(upstream.chunks, loop)>>
  IN
  IF upstream.fetchFailure.cause # ""
  THEN [response |-> caught(upstream.fetchFailure.errorName, upstream.fetchFailure.message),
        html |-> <<>>, read |-> 0, reader |-> <<>>]
  ELSE IF declaredTooLarge(length)
  THEN [response |-> Answer(413, "Response too large"), html |-> <<>>, read |-> 0, reader |-> <<>>]
  ELSE IF numeric
  THEN IF upstream.bodyFailure.cause # ""
       THEN [response |-> caught(upstream.bodyFailure.errorName, upstream.bodyFailure.message), html |-> <<>>,
             read |-> Sum(upstream.chunks), reader |-> <<>>]
       ELSE extraction(Sum(upstream.chunks), <<>>)
  ELSE IF ~upstream.hasBody
  THEN [response |-> Answer(502, "No response body"), html |-> <<>>, read |-> 0, reader |-> <<>>]
  ELSE IF loop.end = "large"
  THEN [response |-> Answer(413, "Response too large"), html |-> <<>>, read |-> loop.bytes, reader |-> reader]
  ELSE IF loop.end = "thrown"
  THEN [response |-> caught(upstream.bodyFailure.errorName, upstream.bodyFailure.message), html |-> <<>>,
        read |-> loop.bytes, reader |-> reader]
  ELSE extraction(loop.bytes, reader)

\* The handler after fetch(url) settled: its answer, the number of body
\* bytes given to the extractor (<<>> when it is not run), the number of
\* body bytes read and the reader of response.body (<<>> when
\* response.body.getReader() was not called).
afterFetch(upstream) ==
  LET length == upstream.contentLength
      numeric == declaredNumeric(length)
      extraction(bytes, reader) ==
        LET end == extract(upstream.article, bytes)
        IN  [response |-> end.response, html |-> end.html, read |-> end.read,
             reader |-> reader]
      loop == readLoop(upstream.chunks, upstream.bodyFailure.cause, 0)
      reader == <<usedReader(upstream.chunks, loop)>>
  IN
  IF upstream.fetchFailure.cause # ""
  THEN [response |-> caught(upstream.fetchFailure.errorName, upstream.fetchFailure.message),
        html |-> <<>>, read |-> 0, reader |-> <<>>]
  ELSE IF ~upstream.ok
  THEN [response |-> Answer(502, "Failed to fetch"), html |-> <<>>, read |-> 0, reader |-> <<>>]
  ELSE IF declaredTooLarge(length)
  THEN [response |-> Answer(413, "Response too large"), html |-> <<>>, read |-> 0, reader |-> <<>>]
  ELSE IF numeric
  THEN \* response.text()
       IF upstream.bodyFailure.cause # ""
       THEN [response |-> caught(upstream.bodyFailure.errorName, upstream.bodyFailure.message), html |-> <<>>,
             read |-> Sum(upstream.chunks), reader |-> <<>>]
       ELSE extraction(Sum(upstream.chunks), <<>>)
  ELSE IF ~upstream.hasBody
  THEN [response |-> Answer(502, "No response body"), html |-> <<>>, read |-> 0, reader |-> <<>>]
  ELSE IF loop.end = "large"
  THEN [response |-> Answer(413, "Response too large"), html |-> <<>>, read |-> loop.bytes, reader |-> reader]
  ELSE IF loop.end = "thrown"
  THEN [response |-> caught(upstream.bodyFailure.errorName, upstream.bodyFailure.message), html |-> <<>>,
        read |-> loop.bytes, reader |-> reader]
  ELSE extraction(loop.bytes, reader)

\* A variant that goes on to fetch(url) whatever the lookup gave.
afterLookupIgnoringGuard(request, lookup) ==
  [to |-> "fetch", response |-> <<>>]

\* The handler after dns.promises.lookup settled.
afterLookup(request, lookup) ==
  IF isBlockedHostname(request.hostname, lookup)
  THEN [to |-> "answer", response |-> <<Forbidden>>]
  ELSE [to |-> "fetch", response |-> <<>>]

\* Requests, answers of the resolver and upstream servers
MaxAddresses == 2
MaxChunks == 2
\* Octets on both sides of every comparison of isBlockedIPv4.
IPv4Hosts ==
  {IPv4(a, b, cd[1], cd[2]) :
     a \in {0, 8, 9, 10, 11, 127, 128, 169, 172, 192},
     b \in {0, 15, 16, 31, 32, 168, 254, 255},
     cd \in {<<0, 1>>, <<169, 254>>}}
\* First groups on both sides of every comparison of isBlockedIPv6 (0xfbff,
\* 0xfc00, 0xfd12, 0xfdff, 0xfe00, 0xfe7f, 0xfe80, 0xfebf, 0xfec0, 0x2001 and
\* 0), followed by ::, ::1, :db8::1 or ::ffff:7f00:1.
IPv6Addresses ==
  {IPv6(<<g>> \o rest) :
     g \in {64511, 64512, 64786, 65023, 65024, 65151, 65152, 65215, 65216, 8193, 0},
     rest \in {<<0, 0, 0, 0, 0, 0, 0>>, <<0, 0, 0, 0, 0, 0, 1>>,
               <<3512, 0, 0, 0, 0, 0, 1>>, <<0, 0, 0, 0, 65535, 32512, 1>>}}
IPv6Hosts == {Bracketed(ip) : ip \in IPv6Addresses}
ReservedNames ==
  {Name("localhost"), Name("localhost.localdomain"), Name("localhost4"),
   Name("localhost6"), Name("ip6-localhost"), Name("ip6-loopback")}
OtherNames == {Name("example.com"), Name("intranet.example"), Name("localhost.")}
Hosts == IPv4Hosts \cup IPv6Hosts \cup ReservedNames \cup OtherNames
Protocols == {"http:", "https:", "ftp:", "file:"}
NoUrl == [given |-> FALSE, parses |-> FALSE, protocol |-> "", hostname |-> Name("")]
NotAUrl == [given |-> TRUE, parses |-> FALSE, protocol |-> "", hostname |-> Name("")]
Requests ==
  {NoUrl, NotAUrl}
    \cup {[given |-> TRUE, parses |-> TRUE, protocol |-> p, hostname |-> h] :
            p \in Protocols, h \in Hosts}
ResolvedAddresses ==
  {IPv4(93, 184, 216, 34), IPv4(10, 0, 0, 1), IPv4(169, 254, 169, 254), IPv4(0, 0, 0, 0),
   IPv6(<<8193, 3512, 0, 0, 0, 0, 0, 1>>), IPv6(<<64786, 0, 0, 0, 0, 0, 0, 1>>)}
Lookups ==
  {<<>>} \cup {<<results>> : results \in UNION {[1..n -> ResolvedAddresses] : n \in 1..MaxAddresses}}
ChunkSizes == {1, MAX_HTML_BYTES, MAX_HTML_BYTES + 1}
Bodies == UNION {[1..n -> ChunkSizes] : n \in 0..MaxChunks}
ContentLengths ==
  {[present |-> FALSE, size |-> <<>>], [present |-> TRUE, size |-> <<>>]}
    \cup {[present |-> TRUE, size |-> <<n>>] : n \in {1, MAX_HTML_BYTES, MAX_HTML_BYTES + 1, 2 * MAX_HTML_BYTES}}
\* How fetch(url) or the reading of the body fails: the timeout of
\* AbortSignal.timeout(FETCH_TIMEOUT_MS) expires, or the connection fails
\* (refused, reset, TLS, name resolution), for which fetch throws a TypeError.
\* AbortSignal.timeout aborts with a DOMException named "TimeoutError" and
\* fetch rejects with the reason of the signal; a runtime whose fetch does
\* not pass the reason on rejects with an "AbortError".
NoFailure == [cause |-> "", errorName |-> "", message |-> ""]
Failures ==
  {[cause |-> "timeout", errorName |-> "TimeoutError",
    message |-> "The operation was aborted due to timeout"],
   [cause |-> "timeout", errorName |-> "AbortError",
    message |-> "This operation was aborted"],
   [cause |-> "network", errorName |-> "TypeError", message |-> "fetch failed"]}
Rejected(failure) ==
  [fetchFailure |-> failure, ok |-> FALSE, contentLength |-> [present |-> FALSE, size |-> <<>>],
   hasBody |-> FALSE, chunks |-> <<>>, bodyFailure |-> NoFailure, article |-> FALSE]
\* The addresses fetch(url) connects to.  fetch is given the url, not the
\* addresses the guard looked at: for a name it asks the resolver again, and
\* the answer may be the one the guard got or another (Rebound); with the
\* default redirect mode it follows a redirect of the upstream to wherever
\* it points (RedirectTarget).  lookup is what the guard's lookup gave,
\* <<>> for an address literal.
Rebound == IPv4(10, 0, 0, 1)
RedirectTarget == IPv4(169, 254, 169, 254)
Connections(hostname, lookup) ==
  LET literal == [hostname EXCEPT !.brackets = FALSE]
      first == IF hostname.kind = "name" THEN {lookup[1][1], Rebound} ELSE {literal}
  IN  {{a} : a \in first} \cup {{a, RedirectTarget} : a \in first \ {Rebound}}

Upstreams ==
  {Rejected(f) : f \in Failures}
    \cup {[fetchFailure |-> NoFailure, ok |-> TRUE, contentLength |-> cl, hasBody |-> TRUE,
           chunks |-> b, bodyFailure |-> f, article |-> a] :
            cl \in ContentLengths, b \in Bodies,
            f \in Failures \cup {NoFailure}, a \in BOOLEAN}
    \cup {[fetchFailure |-> NoFailure, ok |-> FALSE, contentLength |-> cl, hasBody |-> TRUE,
           chunks |-> b, bodyFailure |-> NoFailure, article |-> a] :
            cl \in ContentLengths, b \in {<<>>, <<MAX_HTML_BYTES + 1>>}, a \in BOOLEAN}
    \cup {[fetchFailure |-> NoFailure, ok |-> ok, contentLength |-> cl, hasBody |-> FALSE,
           chunks |-> <<>>, bodyFailure |-> NoFailure, article |-> a] :
            ok \in BOOLEAN, cl \in ContentLengths, a \in BOOLEAN}

(***************************************************************************)
(* The reader page asking the route for an article: handleSubmit and the   *)
(* form that calls it.  A page is the record of the states url, article,   *)
(* error and isLoading; a url is a string of characters.                   *)
(***************************************************************************)

MaxSubmits == 3

\* The form cannot be submitted at all
formDisabledNever(page) == FALSE

\* <Input disabled={isLoading}> and <Button type="submit" disabled={isLoading}>
formDisabled(page) == page.isLoading

\* A variant of handleSubmit that leaves the article of the last answer in
\* place while the next one is fetched.
handleSubmitKeepingArticle(page) ==
  IF Trim(page.url) = <<>>
  THEN [page |-> page, sent |-> <<>>]
  ELSE [page |-> [page EXCEPT !.isLoading = TRUE, !.error = <<>>],
        sent |-> <<Trim(page.url)>>]

\* handleSubmit up to await fetch("/api/extract"): the page it leaves and the
\* request it sends (<<>> when it returns before that)
handleSubmit(page) ==
  IF Trim(page.url) = <<>>
  THEN [page |-> page, sent |-> <<>>]
  ELSE [page |-> [page EXCEPT !.isLoading = TRUE, !.error = <<>>, !.article = <<>>],
        sent |-> <<Trim(page.url)>>]

\* What the route can answer to the request numbered id for url: the article
\* of url or an error
Outcomes(id, url) ==
  {[ok |-> TRUE, id |-> id, url |-> url, error |-> ""],
   [ok |-> FALSE, id |-> id, url |-> url, error |-> "Forbidden URL"],
   [ok |-> FALSE, id |-> id, url |-> url, error |-> "Request timed out"]}

\* handleSubmit from the answer of the route on: setArticle(data) or
\* setError(message), then setIsLoading(false)
handleSubmitSettles(page, outcome) ==
  IF outcome.ok
  THEN [page EXCEPT !.article = <<outcome>>, !.isLoading = FALSE]
  ELSE [page EXCEPT !.error = <<outcome>>, !.isLoading = FALSE]

\* What can be typed into the url field
TypedUrls == {<<>>, <<" ">>, <<"a">>, <<"b", " ">>}

(***************************************************************************)
(* State                                                                   *)
(***************************************************************************)

VARIABLES
  variant, mounted, text, inputText, words, wordsMemo, wordsPerMinute, wordIndex,
  isPlaying, lastControlledRef, timeoutRef, timers, schedDeps, schedCleanup, reportDeps,
  pageWordIndex, settled,
  lastOp,    \* the last event: [op, arg]
  pre,       \* what the instance showed before the last event
  prevOp,    \* the event before the last, when it was a seek, a click or the
             \* button: [op, wasPlaying]; "other" otherwise
  articleContent,  \* article.content, a markup document
  markup,          \* the document the tokenizers are given
  stage,           \* "content", or "processed" after attachTrailingCommasToLinks
  plainText,       \* <<extractTextFromHtml(markup)>>, <<>> before it is computed
  plainWords,      \* parseWords of plainText
  wrappedContent,  \* <<wrapWordsInHtml(markup)>>, <<>> before it is computed
  word,            \* a string given to the functions of the library
  wordTokens,      \* <<parseWords(word)>>, <<>> before it is computed
  wordClass,       \* <<[endsSentence, hasPause, extra]>>, <<>> before
  wordParts,       \* <<getWordParts(word) with focalCharacterIndex>>, <<>> before
  req,             \* <<the request the route is answering>>, <<>> when there is none
  routePc,         \* "request", "lookup", "fetch" or "answered"; "idle"
  dnsLookups,      \* calls of dns.promises.lookup so far
  fetchCalls,      \* calls of fetch so far
  lookupResult,    \* <<what dns.promises.lookup answered>>, <<>> before
  served,          \* <<how the upstream server behaved>>, <<>> before
  answer,          \* <<the response of the handler>>, <<>> before
  extractorBytes,  \* <<size of the html given to parseHTML>>, <<>> when it is not run
  bodyBytesRead,   \* bytes of the upstream body the handler has read
  bodyReader,      \* <<the reader of response.body>>, <<>> when none was taken
  connected,       \* the addresses fetch(url) has connected to
  pageUrl,         \* url of the reader page, the value of the url field
  pageArticle,     \* article of the reader page: <<the answer it came with>> or <<>>
  pageError,       \* error of the reader page: <<the answer it came with>> or <<>>
  pageIsLoading,   \* isLoading of the reader page
  pageInFlight,    \* the requests sent to the route and not yet answered: [id, url]
  pageSubmitted,   \* the urls sent so far, in order
  timeArgs,        \* <<the arguments of calculateReadingTimeMs>>, <<>> when it is not called
  timeResult,      \* <<what calculateReadingTimeMs returned>>, <<>> before
  compactPanel,    \* <<the SpeedReader of the compact view>>, <<>> without an article
  bottomPanel,     \* <<the SpeedReader fixed to the bottom>>, <<>> without an article
  isCompactView,   \* isCompactView of the page
  levelIndex,      \* levelIndex of the reading test
  testStage,       \* stage of the reading test: "reading", "questions" or "complete"
  selectedAnswers, \* selectedAnswers of the reading test, -1 for a question not answered
  achievedWpm,     \* achievedWpm of the reading test: <<wpm>>, <<>> for null
  submittedAnswers \* the answers submitted since the last (re)start: [level, answers]

compVars ==
  <<variant, mounted, text, inputText, words, wordsMemo, wordsPerMinute, wordIndex,
    isPlaying, lastControlledRef, timeoutRef, timers, schedDeps, schedCleanup, reportDeps,
    pageWordIndex, settled>>

markupVars == <<articleContent, markup, stage, plainText, plainWords, wrappedContent>>

wordVars == <<word, wordTokens, wordClass, wordParts>>

routeVars ==
  <<req, routePc, dnsLookups, fetchCalls, lookupResult, served, answer, extractorBytes,
    bodyBytesRead, bodyReader, connected>>

submitVars ==
  <<pageUrl, pageArticle, pageError, pageIsLoading, pageInFlight, pageSubmitted>>

timeVars == <<timeArgs, timeResult>>

panelVars == <<compactPanel, bottomPanel, isCompactView>>

testVars == <<levelIndex, testStage, selectedAnswers, achievedWpm, submittedAnswers>>

vars ==
  <<compVars, lastOp, pre, prevOp, markupVars, wordVars, routeVars, submitVars, timeVars, panelVars, testVars>>

\* No reading time is being calculated.
TimeIdle ==
  /\ timeArgs = <<>>
  /\ timeResult = <<>>

\* No article is shown by the page with two panels.
PanelsIdle ==
  /\ compactPanel = <<>>
  /\ bottomPanel = <<>>
  /\ isCompactView = TRUE

\* The reading test as it starts.
TestIdle ==
  /\ levelIndex = 0
  /\ testStage = "reading"
  /\ selectedAnswers = <<>>
  /\ achievedWpm = <<>>
  /\ submittedAnswers = <<>>

\* The page has asked for no article.
SubmitIdle ==
  /\ pageUrl = <<>>
  /\ pageArticle = <<>>
  /\ pageError = <<>>
  /\ pageIsLoading = FALSE
  /\ pageInFlight = {}
  /\ pageSubmitted = <<>>

\* No request is being answered.
RouteIdle ==
  /\ req = <<>>
  /\ routePc = "idle"
  /\ dnsLookups = 0
  /\ fetchCalls = 0
  /\ lookupResult = <<>>
  /\ served = <<>>
  /\ answer = <<>>
  /\ extractorBytes = <<>>
  /\ bodyBytesRead = 0
  /\ bodyReader = <<>>
  /\ connected = {}

\* No string is being looked at.
WordIdle ==
  /\ word = <<>>
  /\ wordTokens = <<>>
  /\ wordClass = <<>>
  /\ wordParts = <<>>

\* No document is being tokenized.
MarkupIdle ==
  /\ articleContent = <<>>
  /\ markup = <<>>
  /\ stage = "content"
  /\ plainText = <<>>
  /\ plainWords = <<>>
  /\ wrappedContent = <<>>

\* The instance as a record.
Cur ==
  [variant |-> variant, mounted |-> mounted, text |-> text, inputText |-> inputText,
   words |-> words, wordsMemo |-> wordsMemo, wordsPerMinute |-> wordsPerMinute, wordIndex |-> wordIndex,
   isPlaying |-> isPlaying, lastControlledRef |-> lastControlledRef,
   timeoutRef |-> timeoutRef, timers |-> timers, schedDeps |-> schedDeps,
   schedCleanup |-> schedCleanup, reportDeps |-> reportDeps,
   pageWordIndex |-> pageWordIndex, settled |-> settled]

Install(s) ==
  /\ variant' = s.variant
  /\ mounted' = s.mounted
  /\ text' = s.text
  /\ inputText' = s.inputText
  /\ words' = s.words
  /\ wordsMemo' = s.wordsMemo
  /\ wordsPerMinute' = s.wordsPerMinute
  /\ wordIndex' = s.wordIndex
  /\ isPlaying' = s.isPlaying
  /\ lastControlledRef' = s.lastControlledRef
  /\ timeoutRef' = s.timeoutRef
  /\ timers' = s.timers
  /\ schedDeps' = s.schedDeps
  /\ schedCleanup' = s.schedCleanup
  /\ reportDeps' = s.reportDeps
  /\ pageWordIndex' = s.pageWordIndex
  /\ settled' = s.settled

\* What the instance shows.
Snapshot(s) ==
  [index |-> activeWordIndex(s.words, s.wordIndex), isPlaying |-> s.isPlaying,
   wordsPerMinute |-> s.wordsPerMinute, words |-> s.words, timers |-> s.timers,
   finished |-> isFinished(s), pageWordIndex |-> s.pageWordIndex]

\* The event op(arg) took the instance to one of the states of outcomes.
Event(op, arg, outcomes) ==
  /\ \E s \in outcomes : Install(s)
  /\ lastOp' = [op |-> op, arg |-> arg]
  /\ pre' = Snapshot(Cur)
  /\ prevOp' = IF lastOp.op \in {"seek", "click", "playPauseRestart"}
               THEN [op |-> lastOp.op, wasPlaying |-> pre.isPlaying]
               ELSE [op |-> "other", wasPlaying |-> FALSE]
  /\ UNCHANGED <<markupVars, wordVars, routeVars, submitVars, timeVars, panelVars, testVars>>

\* The instance takes events when it is on screen and its renders have ended.
Ready == mounted /\ settled

StartsAs(s) ==
  /\ variant = s.variant
  /\ mounted = s.mounted
  /\ text = s.text
  /\ inputText = s.inputText
  /\ words = s.words
  /\ wordsMemo = s.wordsMemo
  /\ wordsPerMinute = s.wordsPerMinute
  /\ wordIndex = s.wordIndex
  /\ isPlaying = s.isPlaying
  /\ lastControlledRef = s.lastControlledRef
  /\ timeoutRef = s.timeoutRef
  /\ timers = s.timers
  /\ schedDeps = s.schedDeps
  /\ schedCleanup = s.schedCleanup
  /\ reportDeps = s.reportDeps
  /\ pageWordIndex = s.pageWordIndex
  /\ settled = s.settled

\* The home page mounts the full variant with SAMPLE_TEXT; the reader page has
\* no article and so no panel yet.
Init ==
  /\ \/ \E s \in Settle(MountState("full", <<>>, 0), MaxRenderPasses) : StartsAs(s)
     \/ StartsAs(UnmountedState("panel", 0))
  /\ lastOp = [op |-> "init", arg |-> 0]
  /\ pre = Snapshot(Cur)
  /\ prevOp = [op |-> "other", wasPlaying |-> FALSE]
  /\ MarkupIdle
  /\ WordIdle
  /\ RouteIdle
  /\ SubmitIdle
  /\ TestIdle
  /\ PanelsIdle
  /\ TimeIdle

(***************************************************************************)
(* Events                                                                  *)
(***************************************************************************)

\* The Play / Pause / Restart button, disabled while there are no words.
PlayPauseRestart ==
  /\ Ready
  /\ Len(words) > 0
  /\ Event("playPauseRestart", 0, Settle(handlePlayPauseRestart(Cur), MaxRenderPasses))

\* The positions a seek is tried at, among 0 .. n - 1: both ends, their
\* neighbours and the middle.
SeekSamples(n) == {0, 1, n \div 2, n - 2, n - 1} \cap (0..(n - 1))

\* The word slider, rendered while there are words, from 0 to words.length - 1.
SeekSlider ==
  /\ Ready
  /\ \E v \in SeekSamples(Len(words)) :
       Event("seek", v, Settle(onWordSliderChange(Cur, v), MaxRenderPasses))

\* The rate slider.
ChangeWpm ==
  /\ Ready
  /\ \E v \in WpmSamples \ {wordsPerMinute} :
       Event("wpm", v, Settle(onWpmSliderChange(Cur, v), MaxRenderPasses))

\* The textarea of the full variant.
TextChange ==
  /\ Ready
  /\ variant = "full"
  /\ \E value \in Texts \ {inputText} :
       Event("text", 0, Settle(handleTextChange(Cur, value), MaxRenderPasses))

\* A click on a word of the article: its data-word-index is one of the words.
WordClick ==
  /\ Ready
  /\ variant = "panel"
  /\ \E i \in SeekSamples(Len(words)) :
       Event("click", i, Settle(handleWordClick(Cur, i), MaxRenderPasses))

\* A pending timeout fires.
TimerFire ==
  /\ Ready
  /\ \E t \in timers :
       Event("advance", 0, Settle(timeoutCallback(Cur, t), MaxRenderPasses))

\* The page's handleSubmit: setArticle(null) takes the panel off the page.
Submit ==
  /\ variant = "panel"
  /\ mounted
  /\ Event("submit", 0, {Unmount(Cur)})

\* The extracted article arrives: the panel mounts (key = article.content) when
\* the article has text, receiving the page's wordIndex as it then is; the page's
\* effect on the new content, which follows the panel's, sets wordIndex to 0.
ArticleLoaded ==
  /\ variant = "panel"
  /\ ~mounted
  /\ \E content \in Texts :
       /\ articleText(content) # <<>>
       /\ LET first == RenderPass(MountState("panel", articleText(content), pageWordIndex))
              page == [first EXCEPT !.pageWordIndex = 0]
          IN  Event("article", 0, Settle(page, MaxRenderPasses))

Next ==
  \/ PlayPauseRestart
  \/ SeekSlider
  \/ ChangeWpm
  \/ TextChange
  \/ WordClick
  \/ TimerFire
  \/ Submit
  \/ ArticleLoaded

Spec == Init /\ [][Next]_vars

(***************************************************************************)
(* The tokenizers of the reader page, applied to a document                *)
(***************************************************************************)

\* Playback left to itself: once the button has started playback, and for as
\* long as it goes on, the user does nothing and only the timeouts of the
\* browser fire, each of them eventually.
HandsOff == mounted /\ isPlaying /\ lastOp.op \in {"playPauseRestart", "advance"}

UserInput ==
  \/ PlayPauseRestart
  \/ SeekSlider
  \/ ChangeWpm
  \/ TextChange
  \/ WordClick
  \/ Submit
  \/ ArticleLoaded

PlaybackNext == (~HandsOff /\ UserInput) \/ TimerFire

PlaybackSpec == Init /\ [][PlaybackNext]_vars /\ WF_vars(TimerFire)

\* No reader is on screen.
ReaderIdle ==
  /\ StartsAs(UnmountedState("panel", 0))
  /\ lastOp = [op |-> "init", arg |-> 0]
  /\ pre = Snapshot(Cur)
  /\ prevOp = [op |-> "other", wasPlaying |-> FALSE]

readerVars == <<compVars, lastOp, pre, prevOp>>

MarkupInit ==
  /\ ReaderIdle
  /\ WordIdle
  /\ RouteIdle
  /\ SubmitIdle
  /\ TestIdle
  /\ PanelsIdle
  /\ TimeIdle
  /\ articleContent \in Documents
  /\ markup = articleContent
  /\ stage = "content"
  /\ plainText = <<>>
  /\ plainWords = <<>>
  /\ wrappedContent = <<>>

\* processedContent = attachTrailingCommasToLinks(article.content)
ProcessContent ==
  /\ stage = "content"
  /\ plainText = <<>> /\ wrappedContent = <<>>
  /\ markup' = attachTrailingCommasToLinks(markup)
  /\ stage' = "processed"
  /\ UNCHANGED <<articleContent, plainText, plainWords, wrappedContent, readerVars, wordVars, routeVars, submitVars, timeVars, panelVars, testVars>>

\* articleText = extractTextFromHtml(...), and the reader's parseWords(text)
ExtractText ==
  /\ plainText = <<>>
  /\ plainText' = <<extractTextFromHtml(markup)>>
  /\ plainWords' = parseWords(extractTextFromHtml(markup))
  /\ UNCHANGED <<articleContent, markup, stage, wrappedContent, readerVars, wordVars, routeVars, submitVars, timeVars, panelVars, testVars>>

\* setWrappedContent(wrapWordsInHtml(...))
WrapWords ==
  /\ wrappedContent = <<>>
  /\ wrappedContent' = <<wrapWordsInHtml(markup)>>
  /\ UNCHANGED <<articleContent, markup, stage, plainText, plainWords, readerVars, wordVars, routeVars, submitVars, timeVars, panelVars, testVars>>

MarkupNext == ProcessContent \/ ExtractText \/ WrapWords

MarkupSpec == MarkupInit /\ [][MarkupNext]_vars

(***************************************************************************)
(* The functions of the library, applied to a string                       *)
(***************************************************************************)

\* The strings: every one of at most MaxStringLen characters of WordChars, the
\* words a, ab, abc, ... of up to MaxWordLen letters, and strings of the
\* library's tests.
MaxStringLen == 3
MaxWordLen == 15
WordChars == {"a", ".", "?", ",", "-", "EMDASH", "EURO", "RDQUO", "'", " ", "\n"}
ShortStrings == UNION {[1..n -> WordChars] : n \in 0..MaxStringLen}
Letters == <<"a", "b", "c", "d", "e", "f", "g", "h", "i", "j", "k", "l", "m", "n", "o", "p", "q", "r", "s", "t", "u", "v", "w", "x", "y", "z">>
LettersWord(n) == [i \in 1..n |-> Letters[((i - 1) % Len(Letters)) + 1]]
LongWords == {LettersWord(n) : n \in 0..MaxWordLen}
TestStrings ==
  {<<"U", ".", "S", ".", "A">>, <<"3", ".", "1", "4">>, <<"W", "h", "a", "t", "?", "!">>, <<"s", "a", "i", "d", ".", "\"">>, <<"w", "e", "l", "l", "EMDASH", "'">>, <<"w", "o", "r", "d", "-", "-">>,
   <<"h", "e", "l", "l", "o", "\n", "\t", "w", "o", "r", "l", "d">>, <<"w", "o", "r", "d", " ", " ", ",", " ", " ", "w", "o", "r", "d">>}
Strings == ShortStrings \cup LongWords \cup TestStrings

WordInit ==
  /\ ReaderIdle
  /\ MarkupIdle
  /\ RouteIdle
  /\ SubmitIdle
  /\ TestIdle
  /\ PanelsIdle
  /\ TimeIdle
  /\ word \in Strings
  /\ wordTokens = <<>>
  /\ wordClass = <<>>
  /\ wordParts = <<>>

\* parseWords(text)
ParseText ==
  /\ wordTokens = <<>>
  /\ wordTokens' = <<parseWords(word)>>
  /\ UNCHANGED <<word, wordClass, wordParts, readerVars, markupVars, routeVars, submitVars, timeVars, panelVars, testVars>>

\* wordEndsSentence(word), wordHasPausePunctuation(word), and the extra delay
\* the scheduling effect picks for the word at the reference rate.
ClassifyWord ==
  /\ wordClass = <<>>
  /\ wordClass' = <<[endsSentence |-> wordEndsSentence(word),
                     hasPause |-> wordHasPausePunctuation(word),
                     extra |-> extraDelay(word, REFERENCE_WPM,
                                          SENTENCE_END_DELAY_MS_AT_250_WPM,
                                          PAUSE_PUNCTUATION_DELAY_MS_AT_250_WPM)]>>
  /\ UNCHANGED <<word, wordTokens, wordParts, readerVars, markupVars, routeVars, submitVars, timeVars, panelVars, testVars>>

\* getWordParts(word)
SplitWord ==
  /\ wordParts = <<>>
  /\ wordParts' = <<[parts |-> getWordParts(word),
                     focalCharacterIndex |-> getFocalCharacterIndex(word)]>>
  /\ UNCHANGED <<word, wordTokens, wordClass, readerVars, markupVars, routeVars, submitVars, timeVars, panelVars, testVars>>

WordNext == ParseText \/ ClassifyWord \/ SplitWord

WordSpec == WordInit /\ [][WordNext]_vars

(***************************************************************************)
(* The fetch route, answering one request                                  *)
(***************************************************************************)

RouteInit ==
  /\ ReaderIdle
  /\ MarkupIdle
  /\ WordIdle
  /\ SubmitIdle
  /\ TestIdle
  /\ PanelsIdle
  /\ TimeIdle
  /\ req \in {<<r>> : r \in Requests}
  /\ routePc = "request"
  /\ dnsLookups = 0
  /\ fetchCalls = 0
  /\ lookupResult = <<>>
  /\ served = <<>>
  /\ answer = <<>>
  /\ extractorBytes = <<>>
  /\ bodyBytesRead = 0
  /\ bodyReader = <<>>
  /\ connected = {}

\* POST, from the request body to the answer, to dns.promises.lookup or to
\* fetch(url)
Validate ==
  /\ routePc = "request"
  /\ LET step == beforeLookup(req[1]) IN
     /\ routePc' = IF step.to = "answer" THEN "answered" ELSE step.to
     /\ answer' = step.response
     /\ dnsLookups' = IF step.to = "lookup" THEN dnsLookups + 1 ELSE dnsLookups
     /\ fetchCalls' = IF step.to = "fetch" THEN fetchCalls + 1 ELSE fetchCalls
  /\ UNCHANGED <<req, lookupResult, served, extractorBytes, bodyBytesRead, bodyReader, connected,
                 readerVars, markupVars, wordVars, submitVars, timeVars, panelVars, testVars>>

\* dns.promises.lookup settles: the rest of isBlockedHostname, then the
\* answer or fetch(url)
LookupSettles ==
  /\ routePc = "lookup"
  /\ \E lookup \in Lookups :
       LET step == afterLookup(req[1], lookup) IN
       /\ lookupResult' = <<lookup>>
       /\ routePc' = IF step.to = "answer" THEN "answered" ELSE step.to
       /\ answer' = step.response
       /\ fetchCalls' = IF step.to = "fetch" THEN fetchCalls + 1 ELSE fetchCalls
  /\ UNCHANGED <<req, dnsLookups, served, extractorBytes, bodyBytesRead, bodyReader, connected,
                 readerVars, markupVars, wordVars, submitVars, timeVars, panelVars, testVars>>

\* fetch(url) settles with a response of upstreams or a failure: the rest
\* of the handler
FetchAnswers(upstreams) ==
  /\ routePc = "fetch"
  /\ \E upstream \in upstreams :
       LET end == afterFetch(upstream) IN
       /\ served' = <<upstream>>
       /\ routePc' = "answered"
       /\ answer' = <<end.response>>
       /\ extractorBytes' = end.html
       /\ bodyBytesRead' = end.read
       /\ bodyReader' = end.reader
  /\ UNCHANGED <<req, dnsLookups, fetchCalls, lookupResult,
                 readerVars, markupVars, wordVars, submitVars, timeVars, panelVars, testVars>>

\* The handler seen from its caller: what fetch connects to is not observed.
FetchSettles == FetchAnswers(Upstreams) /\ UNCHANGED connected

RouteNext == Validate \/ LookupSettles \/ FetchSettles

RouteSpec == RouteInit /\ [][RouteNext]_vars

\* The handler seen from the network: the addresses fetch(url) connects to
\* are observed, and the upstream answers without a body to stream.
UnstreamedUpstreams == {upstream \in Upstreams : upstream.chunks = <<>>}
FetchConnects ==
  /\ FetchAnswers(UnstreamedUpstreams)
  /\ connected' \in Connections(req[1].hostname,
                                  IF lookupResult = <<>> THEN <<>> ELSE lookupResult[1])

ConnectNext == Validate \/ LookupSettles \/ FetchConnects

ConnectSpec == RouteInit /\ [][ConnectNext]_vars

(***************************************************************************)
(* The reader page, asking for articles                                    *)
(***************************************************************************)

\* The states of the page that handleSubmit reads and writes.
Page ==
  [url |-> pageUrl, article |-> pageArticle, error |-> pageError,
   isLoading |-> pageIsLoading]

InstallPage(page) ==
  /\ pageUrl' = page.url
  /\ pageArticle' = page.article
  /\ pageError' = page.error
  /\ pageIsLoading' = page.isLoading

SubmitInit ==
  /\ ReaderIdle
  /\ MarkupIdle
  /\ WordIdle
  /\ RouteIdle
  /\ SubmitIdle
  /\ TestIdle
  /\ PanelsIdle
  /\ TimeIdle

\* onChange of the url field: setUrl(e.target.value)
ChangeUrl ==
  /\ ~formDisabled(Page)
  /\ \E typed \in TypedUrls : pageUrl' = typed
  /\ UNCHANGED <<pageArticle, pageError, pageIsLoading, pageInFlight, pageSubmitted,
                 readerVars, markupVars, wordVars, routeVars, timeVars, panelVars, testVars>>

\* onSubmit of the form: handleSubmit up to its await
SubmitUrl ==
  /\ ~formDisabled(Page)
  /\ Len(pageSubmitted) < MaxSubmits
  /\ LET step == handleSubmit(Page) IN
     /\ InstallPage(step.page)
     /\ IF step.sent = <<>>
        THEN UNCHANGED <<pageInFlight, pageSubmitted>>
        ELSE /\ pageSubmitted' = Append(pageSubmitted, step.sent[1])
             /\ pageInFlight' =
                  pageInFlight \cup {[id |-> Len(pageSubmitted) + 1, url |-> step.sent[1]]}
  /\ UNCHANGED <<readerVars, markupVars, wordVars, routeVars, timeVars, panelVars, testVars>>

\* The route answers one of the requests in flight: the rest of handleSubmit
ResponseArrives ==
  /\ \E request \in pageInFlight :
       \E outcome \in Outcomes(request.id, request.url) :
         /\ InstallPage(handleSubmitSettles(Page, outcome))
         /\ pageInFlight' = pageInFlight \ {request}
  /\ UNCHANGED <<pageSubmitted, readerVars, markupVars, wordVars, routeVars, timeVars, panelVars, testVars>>

SubmitNext == ChangeUrl \/ SubmitUrl \/ ResponseArrives

SubmitSpec == SubmitInit /\ [][SubmitNext]_vars

\* The page when every request is answered in the end: the route answers on
\* each of its paths and the browser gives up a connection that stays
\* silent, so the fetch of handleSubmit settles.
AnsweredSubmitSpec == SubmitSpec /\ WF_vars(ResponseArrives)

(***************************************************************************)
(* The reading time of a range of words                                    *)
(***************************************************************************)

\* Word lists, rates, pause settings and ranges the function is called with:
\* no word, one word, three words ending in a comma, a dash and a period;
\* fromIndex and toIndex from one below the first index to past the last.
MaxIndex == 4
TimeWordLists == {parseWords(t) : t \in {EmptyText, OneWordText, PunctuatedText}}
TimeArguments ==
  [words : TimeWordLists,
   wpm : {WPM_MIN, DEFAULT_WPM, WPM_MAX},
   sentenceEndMs : {SENTENCE_END_DELAY_MS_AT_250_WPM, 0},
   speechBreakMs : {PAUSE_PUNCTUATION_DELAY_MS_AT_250_WPM},
   fromIndex : -1..MaxIndex,
   toIndex : {<<>>} \cup {<<n>> : n \in -1..MaxIndex}]

TimeInit ==
  /\ ReaderIdle
  /\ MarkupIdle
  /\ WordIdle
  /\ RouteIdle
  /\ SubmitIdle
  /\ TestIdle
  /\ PanelsIdle
  /\ timeArgs \in {<<a>> : a \in TimeArguments}
  /\ timeResult = <<>>

CalculateReadingTime ==
  /\ timeArgs # <<>>
  /\ timeResult = <<>>
  /\ LET a == timeArgs[1] IN
     timeResult' = <<calculateReadingTimeMs(a.words, a.wpm, a.sentenceEndMs,
                                            a.speechBreakMs, a.fromIndex, a.toIndex)>>
  /\ UNCHANGED <<timeArgs, readerVars, markupVars, wordVars, routeVars, submitVars, panelVars, testVars>>

TimeSpec == TimeInit /\ [][CalculateReadingTime]_vars

(***************************************************************************)
(* The reader page that keeps two panels mounted                           *)
(*                                                                         *)
(* The page renders a SpeedReader inside the article for the compact view  *)
(* and another fixed to the bottom for the wide view, both for as long as  *)
(* there is an article, and hides one of them with the class "hidden".     *)
(* Both get controlledWordIndex = wordIndex and onWordIndexChange =        *)
(* setWordIndex of the page; each has its own isPlaying and its own        *)
(* timeout.                                                                *)
(***************************************************************************)

\* One render of the page and the effects of its commit.  Both panels render
\* with the page's wordIndex; the effects of the compact panel run before
\* those of the bottom panel, which is later in the tree, so of two calls of
\* setWordIndex in one commit the bottom panel's is the one that stays.
PanelsPass(p) ==
  LET a == RenderPass(p.compact)
      b == RenderPass(p.bottom)
      page == IF b.reportDeps # p.bottom.reportDeps THEN b.pageWordIndex
              ELSE a.pageWordIndex
  IN  [compact |-> [a EXCEPT !.pageWordIndex = page],
       bottom |-> [b EXCEPT !.pageWordIndex = page]]

Unsettled(p) ==
  [compact |-> [p.compact EXCEPT !.settled = FALSE],
   bottom |-> [p.bottom EXCEPT !.settled = FALSE]]

\* Render until a pass changes nothing, as Settle does for one instance.
RECURSIVE SettlePanels(_, _)
SettlePanels(p, k) ==
  UNION { IF t = p THEN {p}
          ELSE IF k = 0 THEN {Unsettled(t), Unsettled(PanelsPass(t))}
          ELSE SettlePanels(t, k - 1) : t \in {PanelsPass(p)} }

Panels == [compact |-> compactPanel[1], bottom |-> bottomPanel[1]]

InstallPanels(p) ==
  /\ compactPanel' = <<p.compact>>
  /\ bottomPanel' = <<p.bottom>>

PanelsReady ==
  /\ compactPanel # <<>> /\ compactPanel[1].settled
  /\ bottomPanel # <<>> /\ bottomPanel[1].settled

\* The panel that is not hidden.
visible == IF isCompactView THEN "compact" ELSE "bottom"

\* An article was loaded: both panels mount with its text.
PanelsInit ==
  /\ ReaderIdle
  /\ MarkupIdle
  /\ WordIdle
  /\ RouteIdle
  /\ SubmitIdle
  /\ TestIdle
  /\ TimeIdle
  /\ isCompactView = TRUE
  /\ \E t \in {OneWordText, PunctuatedText, SAMPLE_TEXT} :
       \E p \in SettlePanels([compact |-> MountState("panel", articleText(t), 0),
                               bottom |-> MountState("panel", articleText(t), 0)],
                              MaxRenderPasses) :
         /\ compactPanel = <<p.compact>>
         /\ bottomPanel = <<p.bottom>>

\* The Play / Pause / Restart button of the panel on screen.
PanelPlayPauseRestart ==
  /\ PanelsReady
  /\ \E p \in SettlePanels([Panels EXCEPT ![visible] = handlePlayPauseRestart(@)],
                            MaxRenderPasses) : InstallPanels(p)
  /\ UNCHANGED <<isCompactView, readerVars, markupVars, wordVars, routeVars, submitVars, timeVars, testVars>>

\* A timeout of either panel fires: a hidden panel is still mounted.
PanelTimerFire ==
  /\ PanelsReady
  /\ \E which \in {"compact", "bottom"} : \E t \in Panels[which].timers :
       \E p \in SettlePanels([Panels EXCEPT ![which] = timeoutCallback(@, t)],
                             MaxRenderPasses) : InstallPanels(p)
  /\ UNCHANGED <<isCompactView, readerVars, markupVars, wordVars, routeVars, submitVars, timeVars, testVars>>

\* The viewport changes between compact and wide: update() sets isCompactView,
\* which only changes which panel carries the class "hidden".
ViewportChange ==
  /\ PanelsReady
  /\ isCompactView' = ~isCompactView
  /\ UNCHANGED <<compactPanel, bottomPanel, readerVars, markupVars, wordVars, routeVars,
                 submitVars, timeVars, testVars>>

PanelsNext == PanelPlayPauseRestart \/ PanelTimerFire \/ ViewportChange

PanelsSpec == PanelsInit /\ [][PanelsNext]_vars

(***************************************************************************)
(* The reading test                                                        *)
(*                                                                         *)
(* A test is the record of the states levelIndex, stage, selectedAnswers   *)
(* and achievedWpm of ReadingTestPage.                                     *)
(***************************************************************************)

\* READING_LEVELS: the rate of each level, the index of the correct option of
\* each of its questions, the number of options of a question.
READING_LEVELS ==
  <<[wpm |-> 250, correct |-> <<1, 1>>, options |-> 4],
    [wpm |-> 350, correct |-> <<1, 2>>, options |-> 4],
    [wpm |-> 450, correct |-> <<1, 1>>, options |-> 4]>>

\* const level = READING_LEVELS[levelIndex]
level(t) == READING_LEVELS[t.levelIndex + 1]
isLastLevel(t) == t.levelIndex = Len(READING_LEVELS) - 1

handleReadingComplete(t) ==
  [t EXCEPT !.stage = "questions",
            !.selectedAnswers = [i \in 1..Len(level(t).correct) |-> -1]]

handleAnswerSelect(t, questionIndex, optionIndex) ==
  [t EXCEPT !.selectedAnswers[questionIndex + 1] = optionIndex]

\* A variant that credits a failed level with its own rate.
handleSubmitAnswersCreditsFailedLevel(t) ==
  LET allCorrect == \A i \in 1..Len(level(t).correct) :
                      i \in DOMAIN t.selectedAnswers /\ t.selectedAnswers[i] = level(t).correct[i]
  IN  IF ~allCorrect \/ isLastLevel(t)
      THEN [t EXCEPT !.achievedWpm = <<level(t).wpm>>, !.stage = "complete"]
      ELSE [t EXCEPT !.levelIndex = @ + 1, !.stage = "reading", !.selectedAnswers = <<>>]

handleSubmitAnswers(t) ==
  LET allCorrect == \A i \in 1..Len(level(t).correct) :
                      i \in DOMAIN t.selectedAnswers /\ t.selectedAnswers[i] = level(t).correct[i]
  IN  IF ~allCorrect
      THEN [t EXCEPT !.achievedWpm = IF t.levelIndex = 0 THEN <<0>>
                                     ELSE <<READING_LEVELS[t.levelIndex].wpm>>,
                     !.stage = "complete"]
      ELSE IF isLastLevel(t)
      THEN [t EXCEPT !.achievedWpm = <<level(t).wpm>>, !.stage = "complete"]
      ELSE [t EXCEPT !.levelIndex = @ + 1, !.stage = "reading", !.selectedAnswers = <<>>]

handleRestart(t) ==
  [t EXCEPT !.levelIndex = 0, !.stage = "reading", !.selectedAnswers = <<>>,
            !.achievedWpm = <<>>]

\* A Submit Answers button that is never disabled.
submitDisabledNever(t) == FALSE

\* disabled={selectedAnswers.some((a) => a < 0)}
submitDisabled(t) == \E i \in DOMAIN t.selectedAnswers : t.selectedAnswers[i] < 0

Test ==
  [levelIndex |-> levelIndex, stage |-> testStage, selectedAnswers |-> selectedAnswers,
   achievedWpm |-> achievedWpm]

InstallTest(t) ==
  /\ levelIndex' = t.levelIndex
  /\ testStage' = t.stage
  /\ selectedAnswers' = t.selectedAnswers
  /\ achievedWpm' = t.achievedWpm

TestInit ==
  /\ ReaderIdle
  /\ MarkupIdle
  /\ WordIdle
  /\ RouteIdle
  /\ SubmitIdle
  /\ TimeIdle
  /\ PanelsIdle
  /\ levelIndex = 0
  /\ testStage = "reading"
  /\ selectedAnswers = <<>>
  /\ achievedWpm = <<>>
  /\ submittedAnswers = <<>>

\* onComplete of the reader, which is on screen in stage reading
ReadingComplete ==
  /\ testStage = "reading"
  /\ InstallTest(handleReadingComplete(Test))
  /\ UNCHANGED <<submittedAnswers, readerVars, markupVars, wordVars, routeVars, submitVars,
                 timeVars, panelVars>>

\* An option button of a question, on screen in stage questions
AnswerSelect ==
  /\ testStage = "questions"
  /\ \E questionIndex \in 0..(Len(level(Test).correct) - 1) :
       \E optionIndex \in 0..(level(Test).options - 1) :
         InstallTest(handleAnswerSelect(Test, questionIndex, optionIndex))
  /\ UNCHANGED <<submittedAnswers, readerVars, markupVars, wordVars, routeVars, submitVars,
                 timeVars, panelVars>>

\* The Submit Answers button, on screen in stage questions
SubmitAnswers ==
  /\ testStage = "questions"
  /\ ~submitDisabled(Test)
  /\ InstallTest(handleSubmitAnswers(Test))
  /\ submittedAnswers' =
       Append(submittedAnswers, [level |-> levelIndex, answers |-> selectedAnswers])
  /\ UNCHANGED <<readerVars, markupVars, wordVars, routeVars, submitVars, timeVars, panelVars>>

\* The Try Again button, on screen in stage complete
Restart ==
  /\ testStage = "complete"
  /\ InstallTest(handleRestart(Test))
  /\ submittedAnswers' = <<>>
  /\ UNCHANGED <<readerVars, markupVars, wordVars, routeVars, submitVars, timeVars, panelVars>>

TestNext == ReadingComplete \/ AnswerSelect \/ SubmitAnswers \/ Restart

TestSpec == TestInit /\ [][TestNext]_vars

(***************************************************************************)
(* Properties of the pacing scheduler                                      *)
(***************************************************************************)

\* The index the instance shows, and the number of its tokens.
index == activeWordIndex(words, wordIndex)
tokenCount == Len(words)

\* C1: after any sequence of events the active word index is at least 0 and at
\* most max(0, tokenCount - 1); with no tokens the index is 0 and the instance
\* is not playing.
C1_IndexInRange ==
  /\ 0 <= index
  /\ index <= Max(0, tokenCount - 1)
  /\ tokenCount = 0 => index = 0 /\ ~isPlaying

\* C1 witness: the text of a playing instance was replaced by one without tokens.
C1_Witness ==
  /\ mounted /\ lastOp.op = "text" /\ pre.isPlaying /\ pre.index > 0
  /\ tokenCount = 0

C3_AdvanceByOneOrFinish ==
  (lastOp.op = "advance" /\ pre.isPlaying) =>
    /\ pre.index < tokenCount - 1 => index = pre.index + 1 /\ isPlaying
    /\ pre.index = tokenCount - 1 => index = pre.index /\ ~isPlaying /\ isFinished(Cur)
    /\ wordIndex <= tokenCount - 1

\* C3 witness: an advance fired at the last token.
C3_Witness ==
  /\ lastOp.op = "advance" /\ pre.isPlaying
  /\ tokenCount > 1 /\ pre.index = tokenCount - 1

\* C4: play from Finished resets the index to 0 and plays; play from Idle or
\* Paused plays and leaves the index.
C4_PlayRestartsOnlyWhenFinished ==
  (lastOp.op = "playPauseRestart" /\ ~pre.isPlaying) =>
    /\ isPlaying
    /\ pre.finished => index = 0
    /\ ~pre.finished => index = pre.index

\* C4 witness: play from Finished, away from index 0.
C4_Witness ==
  /\ lastOp.op = "playPauseRestart" /\ ~pre.isPlaying /\ pre.finished
  /\ pre.index > 0 /\ index = 0 /\ isPlaying

\* The word the instance shows.
currentWord == IF index + 1 \in DOMAIN words THEN words[index + 1] ELSE <<>>

\* A seek, by the slider or by a click on a word of the article, while paused.
SeekThenPlay ==
  /\ lastOp.op = "playPauseRestart" /\ ~pre.isPlaying
  /\ prevOp.op \in {"seek", "click"} /\ ~prevOp.wasPlaying

\* C5 as claimed: a seek to any valid index i while not playing, then play,
\* plays from i.
C5_SeekThenPlayKeepsIndex ==
  SeekThenPlay => isPlaying /\ index = pre.index

\* C5 as amended: a seek to i while not playing, then play, plays from i with the
\* advance of token i pending when i < tokenCount - 1; at i = tokenCount - 1 the
\* instance is Finished and play starts again from index 0.
C5_SeekThenPlayBelowLast ==
  SeekThenPlay =>
    /\ isPlaying
    /\ pre.index < tokenCount - 1 =>
         /\ index = pre.index
         /\ \E t \in timers : t.deps.activeWordIndex = pre.index
    /\ pre.index = tokenCount - 1 => index = 0

\* C5 witness: seek to an index in the middle, then play.
C5_Witness ==
  /\ SeekThenPlay /\ pre.index > 0 /\ pre.index < tokenCount - 1
  /\ index = pre.index /\ isPlaying

\* JavaScript's clamp of i to 0 .. tokenCount - 1.
Clamp(i) == Max(0, Min(i, tokenCount - 1))

PauseTwice ==
  /\ lastOp.op = "playPauseRestart"
  /\ prevOp.op = "playPauseRestart" /\ prevOp.wasPlaying

\* C7 as claimed: pause twice in a row from Playing leaves Paused with the index
\* of the first call.
C7_PauseIdempotent ==
  PauseTwice => ~isPlaying /\ index = pre.index

\* C7 as amended: pause from Playing leaves Paused with the same index and no
\* advance pending; the handler toggles, so pressing it again plays: from the
\* same index, or from 0 when the index was the last.
C7_PauseThenToggle ==
  /\ (lastOp.op = "playPauseRestart" /\ pre.isPlaying) =>
       ~isPlaying /\ index = pre.index /\ timers = {}
  /\ PauseTwice =>
       /\ ~pre.isPlaying /\ isPlaying
       /\ index = IF pre.finished THEN 0 ELSE pre.index

\* C7 witness: the button pressed twice from Playing, below the last index.
C7_Witness ==
  PauseTwice /\ ~pre.finished /\ pre.index > 0 /\ isPlaying

\* C8: replacing the text (typing in the full variant, a new article for the
\* panel) leaves index 0 and not playing.
C8_TextReplacementResets ==
  lastOp.op \in {"text", "article"} => index = 0 /\ ~isPlaying

\* C9 as claimed: a change of wordsPerMinute while playing leaves index and
\* isPlaying and the pending advance, which keeps the delay of the old rate.
C9_PendingAdvanceKeepsOldRate ==
  (lastOp.op = "wpm" /\ pre.isPlaying) =>
    /\ index = pre.index /\ isPlaying
    /\ \A t \in timers : \E u \in pre.timers : t.delay = u.delay

\* C9 as amended: a change of wordsPerMinute while playing leaves index and
\* isPlaying; it cancels the pending advance and schedules one whose delay is
\* computed with the new rate.
C9_RateChangeReschedules ==
  (lastOp.op = "wpm" /\ pre.isPlaying) =>
    /\ index = pre.index /\ isPlaying
    /\ Cardinality(timers) = 1
    /\ \A t \in timers :
         /\ t.deps.wordsPerMinute = wordsPerMinute
         /\ t.delay = baseMsPerWord(wordsPerMinute)
                        + extraDelay(currentWord, wordsPerMinute,
                                     SENTENCE_END_DELAY_MS_AT_250_WPM,
                                     PAUSE_PUNCTUATION_DELAY_MS_AT_250_WPM)

\* C9 witness: the rate changed while an advance was pending.
C9_Witness ==
  /\ lastOp.op = "wpm" /\ pre.isPlaying /\ pre.timers # {}
  /\ \E t \in timers : \A u \in pre.timers : t.delay # u.delay

\* The punctuation classes as the specification defines them: SentenceEnd on a
\* trailing . ! ? and Pause on a trailing , : ; em dash or double hyphen, each
\* before at most one closing quote.
IsSentenceEndToken(w) == EndsInClass(w, {".", "!", "?"})
IsPauseToken(w) ==
  /\ ~IsSentenceEndToken(w)
  /\ EndsInClass(w, {",", ":", ";", "EMDASH"}) \/ EndsInDoubleHyphen(w)

\* The delay the claim gives for leaving token w at rate wpm, with the defaults.
ClaimedDelay(w, wpm) ==
  Max(30, RoundDiv(60000, wpm))
    + (IF IsSentenceEndToken(w) THEN RoundDiv(500 * 250, wpm)
       ELSE IF IsPauseToken(w) THEN RoundDiv(250 * 250, wpm)
       ELSE 0)

\* C10: the delay scheduled before leaving the current token is
\* max(30, round(60000 / wpm)) + extra, extra being round(500 * 250 / wpm) after
\* a SentenceEnd token, round(250 * 250 / wpm) after a Pause token, else 0; this
\* for every rate of the slider; "end." at 250 gives 740.
C10_DelayFormula ==
  /\ \A t \in timers : t.delay = ClaimedDelay(currentWord, wordsPerMinute)
  /\ \A wpm \in WpmRange : \A i \in DOMAIN words :
       wordDelay(words[i], wpm, SENTENCE_END_DELAY_MS_AT_250_WPM,
                 PAUSE_PUNCTUATION_DELAY_MS_AT_250_WPM) = ClaimedDelay(words[i], wpm)
  /\ wordDelay(<<"e", "n", "d", ".">>, 250, 500, 250) = 740

\* C12: in the reader page, after any user action the page's wordIndex and the
\* mounted panel's active index come to rest, equal to one another, and do not
\* go on alternating between two values.
C12_PageAndReaderAgree ==
  (variant = "panel" /\ mounted) => settled /\ pageWordIndex = index

\* The spans of the wrapped document, in document order.
spans == SelectSeq(wrappedContent[1], LAMBDA n : n.tag = "span")

\* Both tokenizations of the document have been computed.
Tokenized == plainText # <<>> /\ wrappedContent # <<>>

\* C11: for every document, parseWords(extractTextFromHtml(html)) and the spans of
\* wrapWordsInHtml(html) are the same words: as many of them, the span of rank
\* i in document order carries data-word-index i - 1 (so the indices are 0..n-1,
\* each once, in order), and its text is the plain token of that index.
C11_SameWords ==
  Tokenized =>
    /\ Len(spans) = Len(plainWords)
    /\ \A i \in DOMAIN spans :
         /\ spans[i].index = i - 1
         /\ spans[i].text = plainWords[i]

\* C11 witness: a tokenized document with two words that meet at a tag, with no
\* whitespace between them.
C11_Witness ==
  /\ Tokenized /\ Len(plainWords) >= 2
  /\ \E i \in 1..(Len(markup) - 2) :
       /\ ~IsTag(markup[i]) /\ ~IsSpace(markup[i])
       /\ IsTag(markup[i + 1])
       /\ ~IsTag(markup[i + 2]) /\ ~IsSpace(markup[i + 2])

\* Every comma of document d follows a closing link tag, whitespace apart, and
\* there is one.
CommasFollowLinks(d) ==
  /\ \E i \in DOMAIN d : d[i] = ","
  /\ \A i \in DOMAIN d : d[i] = "," =>
       \E j \in 1..(i - 1) : d[j] = "</a>" /\ \A k \in (j + 1)..(i - 1) : IsSpace(d[k])

\* Every link of document d has a word in it.
LinksHaveWords(d) ==
  \A i \in DOMAIN d : d[i] = "<a>" =>
    \E j \in (i + 1)..Len(d) :
      /\ ~IsTag(d[j]) /\ ~IsSpace(d[j]) /\ d[j] # ","
      /\ \A k \in (i + 1)..j : d[k] # "</a>"

\* The example's document, tokenized after attachTrailingCommasToLinks, gives
\* "Hello," "world," "friend." in both tokenizations.
ExampleTokens ==
  (articleContent = HelloWorldFriend /\ stage = "processed" /\ Tokenized) =>
    /\ plainWords = << <<"H", "e", "l", "l", "o", ",">>, <<"w", "o", "r", "l", "d", ",">>, <<"f", "r", "i", "e", "n", "d", ".">> >>
    /\ Len(spans) = 3
    /\ \A i \in 1..3 : spans[i].index = i - 1 /\ spans[i].text = plainWords[i]

\* C13: after attachTrailingCommasToLinks a comma that follows a closing link tag
\* belongs to the last word of the link in both tokenizations: the example gives
\* "Hello," "world," "friend." with indices 0, 1, 2, and in a document whose
\* commas all follow links no token is a comma alone.
C13_CommaJoinsLinkWord ==
  /\ ExampleTokens
  /\ (stage = "processed" /\ Tokenized
        /\ CommasFollowLinks(articleContent) /\ LinksHaveWords(articleContent)) =>
       /\ \A i \in DOMAIN plainWords : plainWords[i] # <<",">>
       /\ \A i \in DOMAIN spans : spans[i].text # <<",">>

\* The items a sequence of nodes spells out: the tags, and the characters of the
\* text nodes and of the spans.
RECURSIVE Flatten(_)
Flatten(nodes) ==
  IF nodes = <<>> THEN <<>>
  ELSE (IF Head(nodes).tag \in {"#text", "span"} THEN Head(nodes).text
        ELSE <<Head(nodes).tag>>) \o Flatten(Tail(nodes))

WithoutWhitespace(items) == SelectSeq(items, LAMBDA x : ~IsSpace(x))

\* The nodes spelled out with normalised separators: every whitespace run of a
\* text node as one space, and one space ahead of a text node that begins with
\* a word when a word came earlier in the document.
RECURSIVE NormalizedSeparators(_, _)
NormalizedSeparators(nodes, seenWord) ==
  IF nodes = <<>> THEN <<>>
  ELSE LET n == Head(nodes)
           t == CollapseWhitespace(n.text)
       IN  IF n.tag # "#text" THEN <<n.tag>> \o NormalizedSeparators(Tail(nodes), seenWord)
           ELSE (IF seenWord /\ t # <<>> /\ ~IsSpace(t[1]) THEN <<" ">> ELSE <<>>)
                  \o t
                  \o NormalizedSeparators(Tail(nodes),
                                          seenWord \/ \E i \in DOMAIN t : ~IsSpace(t[i]))

\* C14 as claimed: wrapWordsInHtml only tags word segments; the separators between
\* them are those of the input, none added and none removed.
C14_SeparatorsUntouched ==
  wrappedContent # <<>> => Flatten(wrappedContent[1]) = Flatten(parseFromString(markup))

\* C14 as amended: wrapWordsInHtml tags the word segments and normalises the
\* separators: every whitespace run inside a text node becomes one space, one
\* space is put ahead of a text node that begins with a word when a word came
\* earlier, and no tag and no other character is added, removed or moved; a span
\* holds a non-empty run without whitespace.
C14_SeparatorsNormalized ==
  wrappedContent # <<>> =>
    LET out == wrappedContent[1]
    IN  /\ Flatten(out) = NormalizedSeparators(parseFromString(markup), FALSE)
        /\ WithoutWhitespace(Flatten(out)) = WithoutWhitespace(markup)
        /\ \A i \in DOMAIN out : out[i].tag = "span" =>
             /\ out[i].text # <<>>
             /\ \A k \in DOMAIN out[i].text : ~IsSpace(out[i].text[k])

\* C14 witness: a wrapped document with a separator the input did not have.
C14_Witness ==
  /\ wrappedContent # <<>>
  /\ Len(spans) >= 2
  /\ Len(Flatten(wrappedContent[1])) > Len(Flatten(parseFromString(markup)))

\* tokens.join(" ")
RECURSIVE JoinWithSpaces(_)
JoinWithSpaces(tokens) ==
  IF tokens = <<>> THEN <<>>
  ELSE IF Len(tokens) = 1 THEN tokens[1]
  ELSE tokens[1] \o <<" ">> \o JoinWithSpaces(Tail(tokens))

\* C15: for every text, the tokens of parseWords joined with single spaces are
\* the text with its whitespace runs collapsed to one space and trimmed; every
\* token is non-empty and has no whitespace in it; the tokens put end to end
\* are the non-whitespace characters of the text, in order (no punctuation is
\* dropped and no token is split at punctuation); and there is no token exactly
\* when the text is empty or all whitespace.
C15_TokensKeepTheText ==
  wordTokens # <<>> =>
    LET tokens == wordTokens[1]
    IN  /\ JoinWithSpaces(tokens) = Trim(CollapseWhitespace(word))
        /\ \A i \in DOMAIN tokens :
             /\ tokens[i] # <<>>
             /\ \A k \in DOMAIN tokens[i] : ~IsSpace(tokens[i][k])
        /\ JoinParts(tokens) = WithoutWhitespace(word)
        /\ (tokens = <<>>) <=> (\A i \in DOMAIN word : IsSpace(word[i]))
        /\ \A i \in DOMAIN tokens : \A k \in 1..(Len(tokens[i]) - 1) :
             \E j \in 1..(Len(word) - 1) :
               word[j] = tokens[i][k] /\ word[j + 1] = tokens[i][k + 1]

\* C15 witness: a text with whitespace to collapse or trim, punctuation inside a
\* token, and two tokens.
C15_Witness ==
  /\ wordTokens # <<>>
  /\ Len(wordTokens[1]) >= 2
  /\ Len(word) > Len(JoinWithSpaces(wordTokens[1]))
  /\ \E i \in DOMAIN wordTokens[1] : \E k \in DOMAIN wordTokens[1][i] :
       wordTokens[1][i][k] = ","

\* The string is a token: it is not empty and has no whitespace in it.
IsToken(w) == w # <<>> /\ \A i \in DOMAIN w : ~IsSpace(w[i])

\* The string is empty or all whitespace.
IsBlank(w) == \A i \in DOMAIN w : IsSpace(w[i])

\* The character that decides the class of token w: its last one, or the one
\* before when the last one is a closing quote " or ' and is not alone.
DecidingCharacters(w) ==
  {w[Len(w)]} \cup (IF Len(w) >= 2 /\ w[Len(w)] \in {"\"", "'"} THEN {w[Len(w) - 1]} ELSE {})

\* C16: for every token exactly one of SentenceEnd (wordEndsSentence), Pause
\* (wordHasPausePunctuation) and None applies: no token is both, and the extra
\* delay chosen for the token is the one of its class.
C16_ClassesExclusive ==
  wordClass # <<>> =>
    LET c == wordClass[1]
    IN  /\ ~(c.endsSentence /\ c.hasPause)
        /\ c.endsSentence <=> c.extra = SENTENCE_END_DELAY_MS_AT_250_WPM
        /\ c.hasPause <=> c.extra = PAUSE_PUNCTUATION_DELAY_MS_AT_250_WPM
        /\ (~c.endsSentence /\ ~c.hasPause) <=> c.extra = 0

\* C16 witness: tokens of each class have been classified; here a Pause token
\* that has a period inside and a quote at its end.
C16_Witness ==
  /\ wordClass # <<>> /\ IsToken(word)
  /\ wordClass[1].hasPause /\ ~wordClass[1].endsSentence
  /\ \E i \in DOMAIN word : word[i] = "."
  /\ word[Len(word)] = "'"

\* C17: wordEndsSentence(token) is true exactly when the last character of the
\* token, or the character before one closing quote at its end, is . ! or ?
\* (runs such as ?! too); it is false for tokens ending in comma, em dash and the
\* like, for tokens whose only period is inside (U.S.A, 3.14), and for empty or
\* whitespace-only input.
C17_SentenceEnd ==
  wordClass # <<>> =>
    /\ IsToken(word) =>
         (wordClass[1].endsSentence <=> DecidingCharacters(word) \cap {".", "!", "?"} # {})
    /\ IsBlank(word) => ~wordClass[1].endsSentence
    /\ word \in {<<"U", ".", "S", ".", "A">>, <<"3", ".", "1", "4">>} => ~wordClass[1].endsSentence
    /\ word = <<"W", "h", "a", "t", "?", "!">> => wordClass[1].endsSentence

\* C17 witness: a token with a period inside and none at its end was classified,
\* and is not SentenceEnd.
C17_Witness ==
  /\ wordClass # <<>> /\ IsToken(word)
  /\ \E i \in 1..(Len(word) - 1) : word[i] = "."
  /\ ~wordClass[1].endsSentence

\* C18: wordHasPausePunctuation(token) is true exactly when the token ends, before
\* one closing quote or not, in , : ; an em dash or a double hyphen; so it is
\* true for the em dash alone and before a quote, and false for every other
\* ending (period, question mark, letters, currency signs) and for empty or
\* whitespace-only input.
C18_Pause ==
  wordClass # <<>> =>
    /\ IsToken(word) =>
         (wordClass[1].hasPause <=>
            \/ DecidingCharacters(word) \cap {",", ":", ";", "EMDASH"} # {}
            \/ EndsInDoubleHyphen(word))
    /\ IsBlank(word) => ~wordClass[1].hasPause

\* C19: getWordParts(word) gives left + focalCharacter + right = word, and
\* getFocalCharacterIndex(word) is 0 for length <= 1, 1 for 2-5, 2 for 6-9, 3 for
\* 10-13 and 4 from 14 on, a position inside every non-empty word.
C19_FocalCharacter ==
  wordParts # <<>> =>
    LET p == wordParts[1].parts
        f == wordParts[1].focalCharacterIndex
        n == Len(word)
    IN  /\ p.left \o p.focalCharacter \o p.right = word
        /\ n <= 1 => f = 0
        /\ n \in 2..5 => f = 1
        /\ n \in 6..9 => f = 2
        /\ n \in 10..13 => f = 3
        /\ n >= 14 => f = 4
        /\ n > 0 => f < n /\ p.focalCharacter = <<word[f + 1]>> /\ Len(p.left) = f

\* C19 witness: a word of 14 letters or more was split.
C19_Witness ==
  /\ wordParts # <<>> /\ Len(word) >= 14
  /\ wordParts[1].focalCharacterIndex = 4
  /\ Len(wordParts[1].parts.right) = Len(word) - 5


\* The address ranges of the claim, as prefixes.
\* The prefixes are at most 16 bits long: the upper half of an IPv4 address
\* and the first group of an IPv6 address decide.
UpperHalf(octets) == octets[1] * 256 + octets[2]
InPrefix4(octets, base, bits) ==
  UpperHalf(octets) \div 2^(16 - bits) = UpperHalf(base) \div 2^(16 - bits)
InPrefix6(groups, firstGroup, bits) ==
  groups[1] \div 2^(16 - bits) = firstGroup \div 2^(16 - bits)
InternalAddress(h) ==
  \/ /\ h.kind = "v4"
     /\ \/ InPrefix4(h.parts, <<10, 0, 0, 0>>, 8)
        \/ InPrefix4(h.parts, <<172, 16, 0, 0>>, 12)
        \/ InPrefix4(h.parts, <<192, 168, 0, 0>>, 16)
        \/ InPrefix4(h.parts, <<127, 0, 0, 0>>, 8)
        \/ InPrefix4(h.parts, <<169, 254, 0, 0>>, 16)
  \/ /\ h.kind = "v6"
     /\ \/ h.parts = <<0, 0, 0, 0, 0, 0, 0, 1>>
        \/ h.parts = <<0, 0, 0, 0, 0, 0, 0, 0>>
        \/ InPrefix6(h.parts, 64512, 7)    \* fc00::/7
        \/ InPrefix6(h.parts, 65152, 10)   \* fe80::/10
ReservedHostname(h) == h \in ReservedNames \cup {IPv4(0, 0, 0, 0)}
Received == routePc \notin {"idle", "request"} /\ req[1].given /\ req[1].parses

\* C20: a URL whose host is an address literal in 10.0.0.0/8, 172.16.0.0/12,
\* 192.168.0.0/16, 127.0.0.0/8, 169.254.0.0/16, ::1, ::, fc00::/7 or
\* fe80::/10, or a reserved hostname, is answered 400 (with "Forbidden URL"
\* when its scheme is http or https) without any call of fetch, and for a
\* reserved hostname without any call of the resolver.
C20_InternalHostsForbidden ==
  (Received /\ (InternalAddress(req[1].hostname) \/ ReservedHostname(req[1].hostname)))
    => /\ routePc = "answered"
       /\ answer # <<>> /\ answer[1].status = 400
       /\ (req[1].protocol \in {"http:", "https:"} => answer[1].error = "Forbidden URL")
       /\ fetchCalls = 0
       /\ (ReservedHostname(req[1].hostname) => dnsLookups = 0)

\* http://169.254.169.254/latest/meta-data was answered "Forbidden URL"
\* and nothing was fetched.
C20_Witness ==
  /\ Received
  /\ req[1].protocol = "http:"
  /\ req[1].hostname = IPv4(169, 254, 169, 254)
  /\ answer = <<Answer(400, "Forbidden URL")>>
  /\ fetchCalls = 0 /\ dnsLookups = 0


\* A request for an http or https URL whose host is a name outside the
\* reserved ones.
NamedHost ==
  /\ Received
  /\ req[1].protocol \in {"http:", "https:"}
  /\ req[1].hostname.kind = "name"
  /\ ~ReservedHostname(req[1].hostname)
\* The resolution failed, or one of the addresses is in a blocked range.
ResolutionBlocks(lookup) ==
  lookup = <<>> \/ \E i \in 1..Len(lookup[1]) : InternalAddress(lookup[1][i])

\* C21: for a hostname that is neither an address literal nor reserved,
\* nothing is fetched before the resolver answered; the request is answered
\* 400 "Forbidden URL" with nothing fetched when the resolution failed or at
\* least one resolved address is in a blocked range, and url is fetched
\* exactly when the resolution succeeded with every address outside them.
C21_ResolvedNamesGuarded ==
  NamedHost =>
    /\ dnsLookups = 1
    /\ (lookupResult = <<>> => routePc = "lookup" /\ fetchCalls = 0 /\ answer = <<>>)
    /\ (lookupResult # <<>> =>
          IF ResolutionBlocks(lookupResult[1])
          THEN routePc = "answered" /\ answer = <<Forbidden>> /\ fetchCalls = 0
          ELSE fetchCalls = 1 /\ routePc \in {"fetch", "answered"}
               /\ (routePc = "fetch" => answer = <<>>))

\* example.com resolved to a public and a private address, in this order,
\* and was refused.
C21_Witness ==
  /\ NamedHost
  /\ req[1].hostname = Name("example.com")
  /\ lookupResult = << << <<IPv4(93, 184, 216, 34), IPv4(10, 0, 0, 1)>> >> >>
  /\ answer = <<Forbidden>>
  /\ fetchCalls = 0

\* C22: a URL whose scheme is neither http nor https is answered 400, and
\* neither the resolver nor fetch is ever called for it.
C22_OtherSchemesRejected ==
  (Received /\ req[1].protocol \notin {"http:", "https:"})
    => /\ routePc = "answered"
       /\ answer # <<>> /\ answer[1].status = 400
       /\ dnsLookups = 0
       /\ fetchCalls = 0

\* ftp://example.com was answered 400 "Invalid URL protocol".
C22_Witness ==
  /\ Received
  /\ req[1].protocol = "ftp:"
  /\ req[1].hostname = Name("example.com")
  /\ answer = <<Answer(400, "Invalid URL protocol")>>
  /\ dnsLookups = 0 /\ fetchCalls = 0


\* fetch(url) settled with a response.
Responded == served # <<>> /\ served[1].fetchFailure.cause = ""

\* C23: the body given to the extractor is never larger than the ceiling,
\* and when more than the ceiling was received the answer is 413, whether
\* content-length is absent, truthful or smaller than what is sent.
C23_BodyWithinCeiling ==
  /\ (extractorBytes # <<>> => extractorBytes[1] <= MAX_HTML_BYTES)
  /\ (bodyBytesRead > MAX_HTML_BYTES => answer = <<Answer(413, "Response too large")>>)

\* C24: when a successful upstream response declares a content-length over
\* the ceiling, the answer is 413 "Response too large", no byte of the body
\* is read and the extractor is not run.
C24_DeclaredLengthShortCircuits ==
  (Responded /\ served[1].ok /\ served[1].contentLength.present
     /\ served[1].contentLength.size # <<>>
     /\ served[1].contentLength.size[1] > MAX_HTML_BYTES)
    => /\ answer = <<Answer(413, "Response too large")>>
       /\ bodyBytesRead = 0
       /\ extractorBytes = <<>>

\* Content-Length: 10485760 on a body that is there to be read: 413, with
\* nothing read.
C24_Witness ==
  /\ Responded /\ served[1].ok
  /\ served[1].contentLength.size = <<10485760>>
  /\ served[1].chunks # <<>>
  /\ answer = <<Answer(413, "Response too large")>>
  /\ bodyBytesRead = 0

\* The timeout expired while fetch(url) was pending or while the body was
\* being read.
TimedOut ==
  /\ served # <<>>
  /\ \/ served[1].fetchFailure.cause = "timeout"
     \/ /\ Responded /\ served[1].ok
        /\ served[1].bodyFailure.cause = "timeout"
        /\ answer[1].status # 413

\* C25: when the fetch, request or body read, exceeds the timeout, the
\* answer is 504 "Request timed out".
C25_TimeoutAnswers504 ==
  TimedOut => answer = <<Answer(504, "Request timed out")>>

\* C26: when the upstream status is not 2xx, the answer is 502, no byte of
\* the body is read and the extractor is not run.
C26_UpstreamStatusAnswers502 ==
  (Responded /\ ~served[1].ok)
    => /\ answer # <<>> /\ answer[1].status = 502
       /\ bodyBytesRead = 0
       /\ extractorBytes = <<>>

\* An upstream error page with a body and an article in it: 502, nothing
\* read.
C26_Witness ==
  /\ Responded /\ ~served[1].ok
  /\ served[1].chunks # <<>> /\ served[1].article
  /\ ~served[1].contentLength.present
  /\ answer = <<Answer(502, "Failed to fetch")>>
  /\ bodyBytesRead = 0 /\ extractorBytes = <<>>

\* C27: a network-level failure of fetch(url) is answered 502.
C27_NetworkFailureAnswers502 ==
  (served # <<>> /\ served[1].fetchFailure.cause = "network")
    => answer # <<>> /\ answer[1].status = 502

\* C28: a request whose url is missing, no string or no URL is answered 400.
C28_InvalidInputAnswers400 ==
  (routePc \notin {"idle", "request"} /\ (~req[1].given \/ ~req[1].parses))
    => answer # <<>> /\ answer[1].status = 400


\* The keys of an article.
ArticleFields == {"title", "content", "textContent", "excerpt", "byline", "siteName"}
\* The guard let the request through: its url parses, its scheme is http or
\* https, its host is no internal address and no reserved name and, when it
\* is a name, every address it resolved to is outside the blocked ranges.
GuardApproved ==
  /\ Received
  /\ req[1].protocol \in {"http:", "https:"}
  /\ ~InternalAddress(req[1].hostname)
  /\ ~ReservedHostname(req[1].hostname)
  /\ (req[1].hostname.kind = "name"
        => lookupResult # <<>> /\ ~ResolutionBlocks(lookupResult[1]))
\* The checks of the size that the handler made have passed, and the whole
\* body was read.
SizeChecksPassed ==
  /\ served[1].contentLength.size = <<>> \/ served[1].contentLength.size[1] <= MAX_HTML_BYTES
  /\ (served[1].contentLength.size = <<>> => bodyBytesRead <= MAX_HTML_BYTES)
  /\ served[1].bodyFailure.cause = ""
  /\ extractorBytes = <<bodyBytesRead>>

\* C30: a request has an answer exactly when the handler has ended, and
\* only one.  The article fields are in the answer only when it is a 200,
\* reached after the input was valid, the guard approved, the upstream
\* status was 2xx, the size checks passed and the extraction gave an
\* article; every other answer has a failure status and carries only an
\* error, 422 exactly when everything but the extraction succeeded.
C30_OneTypedAnswer ==
  /\ (routePc = "answered") = (answer # <<>>)
  /\ Len(answer) <= 1
  /\ answer # <<>> =>
       LET fetched == GuardApproved /\ Responded /\ served[1].ok /\ SizeChecksPassed IN
       /\ (answer[1].fields \cap ArticleFields # {}) = (answer[1].status = 200)
       /\ answer[1].status = 200 =>
            /\ answer[1].fields = ArticleFields
            /\ fetched /\ served[1].article
       /\ answer[1].status # 200 =>
            /\ answer[1].status \in {400, 413, 422, 500, 502, 504}
            /\ answer[1].fields = {"error"}
            /\ answer[1].error # ""
       /\ (answer[1].status = 422) = (fetched /\ ~served[1].article)

\* A fetch that succeeded without an article in it: 422, the error only.
C30_Witness ==
  /\ routePc = "answered"
  /\ answer = <<Answer(422, "Could not extract article content")>>
  /\ GuardApproved /\ Responded /\ served[1].ok /\ ~served[1].article
  /\ extractorBytes # <<>>


\* What the page displays: the answers held by article and error.
Displayed == {pageArticle[i] : i \in 1..Len(pageArticle)} \cup {pageError[i] : i \in 1..Len(pageError)}

\* C29: what the page displays never comes from an earlier submit than the
\* latest one, and once no request is in flight the page displays exactly
\* the article or the error answered to the most recently submitted url.
C29_LatestSubmitWins ==
  /\ \A shown \in Displayed :
       /\ shown.id = Len(pageSubmitted)
       /\ shown.url = pageSubmitted[shown.id]
  /\ (pageInFlight = {} /\ pageSubmitted # <<>>) =>
       /\ Cardinality(Displayed) = 1
       /\ ~pageIsLoading

\* Two urls were submitted one after the other, and the article of the
\* second is displayed.
C29_Witness ==
  /\ pageSubmitted = << <<"a">>, <<"b">> >>
  /\ pageInFlight = {}
  /\ pageArticle # <<>> /\ pageArticle[1].id = 2 /\ pageArticle[1].url = <<"b">>
  /\ pageError = <<>>


\* Finished: the last word is shown, playback has stopped and no advance is
\* pending.
Finished ==
  /\ mounted /\ tokenCount > 0
  /\ index = tokenCount - 1
  /\ ~isPlaying
  /\ timers = {}
\* An advance moved the index to the next word, or stopped at the last one.
AdvancedByOne ==
  (mounted /\ lastOp.op = "advance" /\ pre.isPlaying) =>
    \/ index = pre.index + 1 /\ isPlaying
    \/ index = pre.index /\ pre.index = tokenCount - 1 /\ ~isPlaying

\* C31: when the timeouts of the browser eventually fire and the user does
\* nothing after starting playback on a non-empty text, playback eventually
\* reaches Finished (last index, not playing, no advance pending), and every
\* advance on the way moves the index by exactly one, so that every index
\* from the start to the last is shown once.
C31_PlaybackFinishes ==
  /\ []AdvancedByOne
  /\ (HandsOff ~> Finished)

\* Playback left to itself has stopped at the last word of a text of several
\* words.
C31_Witness ==
  /\ Finished
  /\ tokenCount > 2
  /\ lastOp.op = "advance"
  /\ pre.isPlaying /\ pre.index = tokenCount - 1
  /\ prevOp.op = "other"


\* C32: while the reader is not playing no advance is pending and no step is
\* an advance, so the index is not moved by a timeout from pause() until the
\* next play(): the timeout that was pending when the button paused was
\* cleared by the cleanup of the scheduling effect and never fires.
C32_PausedIndexHolds ==
  /\ [](mounted /\ ~isPlaying => timers = {})
  /\ [][(mounted /\ ~isPlaying) => lastOp'.op # "advance"]_vars

\* The button paused a reader in the middle of the text while an advance was
\* pending.
C32_Witness ==
  /\ mounted /\ lastOp.op = "playPauseRestart"
  /\ pre.isPlaying /\ pre.timers # {}
  /\ ~isPlaying /\ timers = {}
  /\ index = pre.index /\ index < tokenCount - 1


\* The index of the first chunk with which the running count passes the
\* ceiling, 0 when there is none.
FirstChunkOver(chunks) ==
  LET over == {n \in 1..Len(chunks) : Sum(SubSeq(chunks, 1, n)) > MAX_HTML_BYTES}
  IN  IF over = {} THEN 0 ELSE CHOOSE n \in over : \A m \in over : n <= m
\* The handler read a body chunk by chunk: the response was ok, announced no
\* usable Content-Length and had a body.
ReadInChunks ==
  /\ Responded
  /\ served[1].ok
  /\ ~declaredNumeric(served[1].contentLength)
  /\ served[1].hasBody

\* C33: when a body read chunk by chunk passes the ceiling, the handler has
\* asked for no chunk after the first one that made the running count pass
\* it, has cancelled the reader and released its lock, has given nothing to
\* the extractor and answers 413.
C33_OversizeStreamCancelled ==
  (ReadInChunks /\ FirstChunkOver(served[1].chunks) > 0) =>
    LET n == FirstChunkOver(served[1].chunks) IN
    /\ bodyReader = <<[chunksRead |-> n, cancelled |-> TRUE, locked |-> FALSE]>>
    /\ bodyBytesRead = Sum(SubSeq(served[1].chunks, 1, n))
    /\ extractorBytes = <<>>
    /\ answer = <<Answer(413, "Response too large")>>

\* A body passed the ceiling with its first chunk and had another.
C33_Witness ==
  /\ ReadInChunks
  /\ FirstChunkOver(served[1].chunks) = 1
  /\ Len(served[1].chunks) > 1
  /\ bodyReader # <<>> /\ bodyReader[1].cancelled


\* C34: fetch(url) is called at most once for a request, only when the
\* scheme check and the guard have let the url through (for a name, after its
\* lookup), and never again once it was called: whatever fetch or the reading
\* of the body ends in, the handler answers without a second call.
C34_OneGuardedFetch ==
  /\ [](fetchCalls <= 1)
  /\ [](fetchCalls = 1 => GuardApproved /\ routePc \in {"fetch", "answered"})
  /\ [][(routePc \in {"fetch", "answered"}) => (fetchCalls' = fetchCalls)]_vars

\* The one fetch of a request for a named host failed, and the handler has
\* answered.
C34_Witness ==
  /\ routePc = "answered"
  /\ fetchCalls = 1 /\ dnsLookups = 1
  /\ served # <<>> /\ served[1].fetchFailure.cause = "network"
  /\ answer # <<>>


\* The addresses the guard has looked at and let through for this request:
\* the literal of the url, or every address its lookup gave.
ApprovedAddresses ==
  IF req[1].hostname.kind = "name"
  THEN IF lookupResult = <<>> \/ lookupResult[1] = <<>> THEN {}
       ELSE {lookupResult[1][1][i] : i \in 1..Len(lookupResult[1][1])}
  ELSE {[req[1].hostname EXCEPT !.brackets = FALSE]}

\* C35: every address fetch has connected to is one the guard let through
\* for this request, and none is an internal address, also when fetch
\* resolves the name again and when it follows a redirect.
C35_ConnectsOnlyToApproved ==
  \A a \in connected : a \in ApprovedAddresses /\ ~InternalAddress(a)


\* The delays the scheduling effect waits at the words of the list whose
\* indices are in lo..hi, added up.
RECURSIVE SchedulerTime(_, _, _, _)
SchedulerTime(a, lo, hi, i) ==
  IF i > Len(a.words) - 1 THEN 0
  ELSE (IF lo <= i /\ i <= hi
        THEN wordDelay(a.words[i + 1], a.wpm, a.sentenceEndMs, a.speechBreakMs)
        ELSE 0) + SchedulerTime(a, lo, hi, i + 1)

PendingAdvances ==
  IF compactPanel = <<>> \/ bottomPanel = <<>> THEN 0
  ELSE Cardinality(compactPanel[1].timers) + Cardinality(bottomPanel[1].timers)

\* C37: over both panels of the reader page at most one advance is pending,
\* also after the viewport changed between compact and wide while a panel
\* was playing.
C37_OneSchedulerForThePage == PendingAdvances <= 1


\* The page shows the answer to a submit: it is not loading and exactly one
\* of article and error is set.
SubmitAnswered ==
  /\ ~pageIsLoading
  /\ (pageArticle # <<>>) # (pageError # <<>>)

\* C38: article and error are never both set; while a request is in flight
\* the page is loading and shows no article; when the requests are answered
\* in the end, every submit leads to a page that is not loading and has
\* exactly one of article and error; and an answer that is an error leaves
\* no article on the page.
C38_ArticleOrError ==
  /\ [](~(pageArticle # <<>> /\ pageError # <<>>))
  /\ [](pageInFlight # {} => pageIsLoading /\ pageArticle = <<>>)
  /\ []((pageSubmitted # <<>> /\ ~pageIsLoading) => SubmitAnswered)
  /\ (pageIsLoading ~> SubmitAnswered)
  /\ [][(pageInFlight' # pageInFlight /\ pageError' # <<>>) => (pageArticle' = <<>>)]_vars

\* The second request of the page was answered with an error.
C38_Witness ==
  /\ Len(pageSubmitted) >= 2
  /\ pageInFlight = {}
  /\ pageError # <<>> /\ pageError[1].id = 2
  /\ SubmitAnswered


\* The rates of the levels and the correct options, as the test states them.
LevelRate(k) == <<250, 350, 450>>[k + 1]
CorrectOptions(k) == <<<<1, 1>>, <<1, 2>>, <<1, 1>>>>[k + 1]
\* The levels whose questions were all answered correctly in this run.
PassedLevels ==
  {submittedAnswers[i].level : i \in {j \in DOMAIN submittedAnswers :
      submittedAnswers[j].answers = CorrectOptions(submittedAnswers[j].level)}}
HighestPassedRate ==
  IF PassedLevels = {} THEN 0
  ELSE LevelRate(CHOOSE k \in PassedLevels : \A m \in PassedLevels : m <= k)

\* C39: in stage complete achievedWpm is the rate of the highest level passed
\* in this run, 0 when none was, and the run has ended on a failed level or
\* after the third; a level is shown only when every level below it was
\* passed in this run.
C39_AchievedRateIsHighestPassed ==
  /\ testStage = "complete" =>
       /\ achievedWpm = <<HighestPassedRate>>
       /\ \/ PassedLevels = 0..2
          \/ /\ submittedAnswers # <<>>
             /\ submittedAnswers[Len(submittedAnswers)].level \notin PassedLevels
             /\ PassedLevels = 0..(submittedAnswers[Len(submittedAnswers)].level - 1)
  /\ testStage # "complete" => PassedLevels = 0..(levelIndex - 1)

\* The test ended at the second level, which was failed.
C39_Witness ==
  /\ testStage = "complete"
  /\ levelIndex = 1
  /\ PassedLevels = {0}
  /\ achievedWpm = <<250>>


\* One step of the reading test: an answer is chosen, the reading ends, the
\* answers are submitted and lead to the next level or to the end, or the
\* test is restarted.
TestStep ==
  \/ /\ testStage' = testStage /\ levelIndex' = levelIndex /\ achievedWpm' = achievedWpm
  \/ /\ testStage = "reading" /\ testStage' = "questions" /\ levelIndex' = levelIndex
  \/ /\ testStage = "questions" /\ testStage' = "reading" /\ levelIndex' = levelIndex + 1
  \/ /\ testStage = "questions" /\ testStage' = "complete" /\ levelIndex' = levelIndex
  \/ /\ testStage = "complete" /\ testStage' = "reading" /\ levelIndex' = 0
     /\ selectedAnswers' = <<>> /\ achievedWpm' = <<>>

\* C40: levelIndex is 0, 1 or 2; achievedWpm is set exactly in stage
\* complete; in stage questions selectedAnswers has an entry for each
\* question of the level; no answers were submitted with a question
\* unanswered; the stage moves reading -> questions -> reading of the next
\* level or complete, and from complete only by the restart, to level 0,
\* stage reading, no answers and no achievedWpm.
C40_TestStaysWellFormed ==
  /\ [](levelIndex \in 0..2)
  /\ [](testStage \in {"reading", "questions", "complete"})
  /\ []((achievedWpm # <<>>) <=> (testStage = "complete"))
  /\ [](testStage = "questions" => Len(selectedAnswers) = Len(CorrectOptions(levelIndex)))
  /\ [](\A i \in DOMAIN submittedAnswers :
          \A q \in DOMAIN submittedAnswers[i].answers : submittedAnswers[i].answers[q] # -1)
  /\ [][TestStep]_vars

\* The questions of the third level are on screen, all answered.
C40_Witness ==
  /\ testStage = "questions"
  /\ levelIndex = 2
  /\ Len(selectedAnswers) = 2
  /\ \A q \in DOMAIN selectedAnswers : selectedAnswers[q] >= 0

====
